---- MODULE Spec2Model ----
(***************************************************************************)
(* A model of the NakenChat AI bot core: the rate limiter                  *)
(* (bot/rate_limiter.py), the context store (bot/context_manager.py), the  *)
(* connection manager (bot/chat_client.py), the text helpers               *)
(* (utils/helpers.py) and the orchestrator (bot/message_processor.py).     *)
(***************************************************************************)
EXTENDS Integers, Sequences, FiniteSets, TLC

(***************************************************************************)
(* Bounds of the model and configuration values.                           *)
(***************************************************************************)
\* identities that send chat lines
Users == {"alice", "bob", "carol"}
\* message bodies
Msgs == {"m1", "m2"}
\* bot.username of the configuration
BotUsername == "bot"

\* behavior.rate_limit.max_requests
MaxRequests == 1
\* behavior.rate_limit.time_window, in seconds
TimeWindow == 2
\* the simulated clock of the rate limiter runs from 0 to MaxTime
MaxTime == 4
\* nakenchat.max_reconnect_attempts
MaxReconnectAttempts == 2
\* at most MaxLosses transport failures (end of stream, failed write) happen in
\* one behaviour
MaxLosses == 2
\* at most MaxSockets transports are opened
MaxSockets == 2

\* at most MaxRecords requests are recorded between two calls of reset_all
MaxRecords == 3

\* bot.context_length: the capacity the store is constructed with
ContextLength == 2
\* set_context_length is called with 0..MaxNewLength
MaxNewLength == 2
\* at most MaxAppends calls of add_message in one behaviour
MaxAppends == 4
\* the clock of the context store advances MaxCtxTicks times, by one TTL
MaxCtxTicks == 2

\* at most MaxLines lines are read from the server in one behaviour
MaxLines == 2
\* a response is made of words of up to MaxRun letters
MaxRun == 18
\* truncate_response is called with a max_length of 0..MaxLength
MaxLength == 22

VARIABLES
    now,                \* time.time()
    \* RateLimiter
    enabled,            \* RateLimiter.enabled
    user_requests,      \* RateLimiter.user_requests: identity -> timestamps
    global_requests,    \* RateLimiter.global_requests
    rl_ret,             \* what the last rate limiter call returned
    rec_log,            \* history: record_request calls per identity since its reset
    glob_log,           \* history: record_request calls since reset_all
    \* ContextManager
    ctx_enabled,        \* ContextManager.enabled
    max_context_length, \* ContextManager.max_context_length
    user_contexts,      \* ContextManager.user_contexts: identity -> deque
    global_context,     \* ContextManager.global_context
    context_timestamps, \* ContextManager.context_timestamps
    appended,           \* history: turns that went into an identity's deque
    fresh,              \* history: appended[u] holds add_message turns only
    evicted,            \* history: the identities the last operation evicted
    n_appends,          \* history: number of add_message calls
    resizes,            \* history: set_context_length calls in succession with one length
    \* NakenChatClient
    is_connected,       \* NakenChatClient.is_connected
    reconnect_attempts, \* NakenChatClient.reconnect_attempts
    should_stop,        \* NakenChatClient.should_stop
    writer,             \* NakenChatClient.writer (and reader): 0 is None, else a socket
    listen_task,        \* NakenChatClient.listen_task: 0 is None, DoneTask, or a task
    reconnect_task,     \* NakenChatClient.reconnect_task: 0 is None, DoneTask, or a task
    tasks,              \* the asyncio tasks that have not completed: id -> position
    wire,               \* the lines written to the transports: <<socket, line>>
    closed,             \* the sockets the client has closed
    n_socks,            \* the number of transports opened so far
    main_pc,            \* the position of the caller of connect() and disconnect()
    main_await,         \* the task disconnect() is awaiting
    failed_connects,    \* history: consecutive failed connect attempts
    losses,             \* history: number of transport failures so far
    was_connected,      \* history: disconnect() was called on a connected client
    \* MessageProcessor
    processing_tasks,   \* MessageProcessor.processing_tasks
    loop_time,          \* the last value loop.time() returned
    requests,           \* the locals of _process_ai_request, by the task that runs it
    gen_log,            \* history: the generate_response calls, <<username, prompt>>
    sent_log,           \* history: the send_message calls of the orchestrator, each
                        \* with the line, the identity and what it came after
    n_lines,            \* history: number of lines read
    last_line,          \* history: the line read last
    raised_at,          \* history: the number of the last line the handler raised at
    \* the text helpers
    txt_in,             \* the arguments a helper is called with
    txt_op,             \* the helper that was called
    txt_out             \* what it returned

rlVars == <<enabled, user_requests, global_requests, rl_ret, rec_log, glob_log>>
ctxVars == <<ctx_enabled, max_context_length, user_contexts, global_context,
             context_timestamps, appended, fresh, evicted, n_appends, resizes>>
connVars == <<is_connected, reconnect_attempts, should_stop, writer, listen_task,
              reconnect_task, tasks, wire, closed, n_socks, main_pc, main_await,
              failed_connects, losses, was_connected>>
botVars == <<processing_tasks, loop_time, requests, gen_log, sent_log, n_lines,
             last_line, raised_at>>
txtVars == <<txt_in, txt_op, txt_out>>
vars == <<now, rlVars, ctxVars, connVars, botVars, txtVars>>

Min(a, b) == IF a <= b THEN a ELSE b

\* the empty dict
EmptyMap == [x \in {} |-> <<>>]

\* d with key k removed
DelKey(d, k) == [x \in DOMAIN d \ {k} |-> d[x]]

\* d with d[k] = v
SetKey(d, k, v) == [x \in DOMAIN d \cup {k} |-> IF x = k THEN v ELSE d[x]]

\* the last n entries of s
LastN(s, n) == IF Len(s) <= n THEN s ELSE SubSeq(s, Len(s) - n + 1, Len(s))

(***************************************************************************)
(* RateLimiter                                                             *)
(***************************************************************************)
NoRet == [op |-> "none"]

\* KeepNewer with the request at the cutoff kept
KeepNewerOrEqual(reqs, cutoff_time) == SelectSeq(reqs, LAMBDA req_time : req_time >= cutoff_time)

\* the timestamps of reqs that are newer than the cutoff
KeepNewer(reqs, cutoff_time) == SelectSeq(reqs, LAMBDA req_time : req_time > cutoff_time)

\* _clean_old_requests on user_requests: prune, then drop the empty entries
CleanUsers(ur, current_time) ==
    LET cutoff_time == current_time - TimeWindow
        keep == {u \in DOMAIN ur : KeepNewer(ur[u], cutoff_time) # <<>>}
    IN [u \in keep |-> KeepNewer(ur[u], cutoff_time)]

\* _clean_old_requests on global_requests
CleanGlobal(gr, current_time) == KeepNewer(gr, current_time - TimeWindow)

\* self.user_requests[user_id] on a defaultdict(list): a missing key is inserted
DefaultGet(ur, user_id) == IF user_id \in DOMAIN ur THEN ur ELSE SetKey(ur, user_id, <<>>)

\* the user-specific limit of is_allowed
UserLimitHit(user_count) == user_count >= MaxRequests

\* GlobalLimitHit that admits one request more
GlobalLimitHitLate(global_count) == global_count > MaxRequests * 2

\* the global limit of is_allowed
GlobalLimitHit(global_count) == global_count >= MaxRequests * 2

\* the value is_allowed(user_id) returns in the current state
IsAllowedRet(user_id) ==
    IF ~enabled THEN TRUE
    ELSE LET ur == DefaultGet(CleanUsers(user_requests, now), user_id)
             gr == CleanGlobal(global_requests, now)
         IN IF UserLimitHit(Len(ur[user_id])) THEN FALSE
            ELSE IF GlobalLimitHit(Len(gr)) THEN FALSE
            ELSE TRUE

is_allowed(user_id) ==
    /\ rl_ret' = [op |-> "is_allowed", user |-> user_id, ret |-> IsAllowedRet(user_id)]
    /\ IF ~enabled
       THEN UNCHANGED <<user_requests, global_requests>>
       ELSE /\ user_requests' = DefaultGet(CleanUsers(user_requests, now), user_id)
            /\ global_requests' = CleanGlobal(global_requests, now)
    /\ UNCHANGED <<now, enabled, rec_log, glob_log, ctxVars, connVars, botVars, txtVars>>

record_request(user_id) ==
    /\ Len(glob_log) < MaxRecords
    /\ rl_ret' = [op |-> "record_request", user |-> user_id]
    /\ IF ~enabled
       THEN UNCHANGED <<user_requests, global_requests, rec_log, glob_log>>
       ELSE LET ur == DefaultGet(user_requests, user_id)
                ur2 == [ur EXCEPT ![user_id] = Append(@, now)]
            IN /\ user_requests' = CleanUsers(ur2, now)
               /\ global_requests' = CleanGlobal(Append(global_requests, now), now)
               /\ rec_log' = [rec_log EXCEPT ![user_id] = Append(@, now)]
               /\ glob_log' = Append(glob_log, now)
    /\ UNCHANGED <<now, enabled, ctxVars, connVars, botVars, txtVars>>

get_user_stats(user_id) ==
    LET ur == CleanUsers(user_requests, now)
        gr == CleanGlobal(global_requests, now)
    IN /\ user_requests' = ur
       /\ global_requests' = gr
       /\ rl_ret' = [op |-> "get_user_stats", user |-> user_id,
                     user_requests |-> IF user_id \in DOMAIN ur THEN Len(ur[user_id]) ELSE 0,
                     global_requests |-> Len(gr)]
       /\ UNCHANGED <<now, enabled, rec_log, glob_log, ctxVars, connVars, botVars, txtVars>>

\* reset_user that takes the identity's timestamps out of global_requests too
ResetUserGlobally(user_id) ==
    /\ user_requests' = IF user_id \in DOMAIN user_requests
                        THEN DelKey(user_requests, user_id) ELSE user_requests
    /\ global_requests' =
           IF user_id \in DOMAIN user_requests
           THEN SelectSeq(global_requests,
                          LAMBDA req_time : \A i \in 1..Len(user_requests[user_id]) :
                                                user_requests[user_id][i] # req_time)
           ELSE global_requests
    /\ rec_log' = [rec_log EXCEPT ![user_id] = <<>>]
    /\ rl_ret' = [op |-> "reset_user", user |-> user_id]
    /\ UNCHANGED <<now, enabled, glob_log, ctxVars, connVars, botVars, txtVars>>

reset_user(user_id) ==
    /\ user_requests' = IF user_id \in DOMAIN user_requests
                        THEN DelKey(user_requests, user_id) ELSE user_requests
    /\ rec_log' = [rec_log EXCEPT ![user_id] = <<>>]
    /\ rl_ret' = [op |-> "reset_user", user |-> user_id]
    /\ UNCHANGED <<now, enabled, global_requests, glob_log, ctxVars, connVars, botVars, txtVars>>

reset_all ==
    /\ user_requests' = EmptyMap
    /\ global_requests' = <<>>
    /\ rec_log' = [u \in Users |-> <<>>]
    /\ glob_log' = <<>>
    /\ rl_ret' = [op |-> "reset_all"]
    /\ UNCHANGED <<now, enabled, ctxVars, connVars, botVars, txtVars>>

\* the simulated clock advances by one second
TickRate ==
    /\ now < MaxTime
    /\ now' = now + 1
    /\ rl_ret' = NoRet
    /\ UNCHANGED <<enabled, user_requests, global_requests, rec_log, glob_log, ctxVars, connVars, botVars, txtVars>>

RateInit ==
    /\ user_requests = EmptyMap
    /\ global_requests = <<>>
    /\ rl_ret = NoRet
    /\ rec_log = [u \in Users |-> <<>>]
    /\ glob_log = <<>>

(***************************************************************************)
(* ContextManager                                                          *)
(***************************************************************************)
\* context_ttl, in seconds
ContextTTL == 3600

\* every identity add_message is called with
Names == {"alice", BotUsername}

\* deque(iterable, maxlen): only the last maxlen entries are kept
Deque(entries, maxlen) == [items |-> LastN(entries, maxlen), maxlen |-> maxlen]

\* DequeAppend that discards the new entry on a full deque
DequeAppendDropNew(d, x) ==
    IF Len(d.items) >= d.maxlen THEN d ELSE [d EXCEPT !.items = Append(d.items, x)]

\* deque.append: on a full deque the oldest entry is discarded
DequeAppend(d, x) == [d EXCEPT !.items = LastN(Append(d.items, x), d.maxlen)]

\* the formatted turn of add_message
FormatMessage(username, message, is_bot) ==
    IF ~is_bot THEN <<username, message>> ELSE <<"Assistant", message>>

\* ExpiredUsers that takes an identity at the cutoff as well
ExpiredAtCutoff(ts, current_time) ==
    {username \in DOMAIN ts : ts[username] <= current_time - ContextTTL}

\* the identities _cleanup_old_contexts removes
ExpiredUsers(ts, current_time) ==
    {username \in DOMAIN ts : ts[username] < current_time - ContextTTL}

\* user_contexts after clear_user_context of every identity of gone
DropUsers(uc, gone) == [u \in DOMAIN uc \ gone |-> uc[u]]

add_message(username, message, is_bot) ==
    /\ n_appends < MaxAppends
    /\ n_appends' = n_appends + 1
    /\ resizes' = 0
    /\ IF ~ctx_enabled
       THEN UNCHANGED <<user_contexts, global_context, context_timestamps,
                        appended, fresh>>
            /\ evicted' = {}
       ELSE LET formatted_message == FormatMessage(username, message, is_bot)
                uc0 == IF username \in DOMAIN user_contexts THEN user_contexts
                       ELSE SetKey(user_contexts, username, Deque(<<>>, max_context_length))
                uc1 == [uc0 EXCEPT ![username] = DequeAppend(@, formatted_message)]
                ts1 == SetKey(context_timestamps, username, now)
                gone == ExpiredUsers(ts1, now)
            IN /\ user_contexts' = DropUsers(uc1, gone)
               /\ context_timestamps' = DropUsers(ts1, gone)
               /\ global_context' = DequeAppend(global_context, formatted_message)
               /\ appended' = [u \in Names |->
                                 IF u \in gone THEN <<>>
                                 ELSE IF u = username
                                      THEN Append(appended[u], formatted_message)
                                      ELSE appended[u]]
               /\ fresh' = [u \in Names |-> IF u \in gone THEN TRUE ELSE fresh[u]]
               /\ evicted' = gone
    /\ UNCHANGED <<now, ctx_enabled, max_context_length, rlVars, connVars, botVars, txtVars>>

clear_user_context(username) ==
    /\ user_contexts' = DropUsers(user_contexts, {username})
    /\ context_timestamps' = DropUsers(context_timestamps, {username})
    /\ appended' = [appended EXCEPT ![username] = <<>>]
    /\ fresh' = [fresh EXCEPT ![username] = TRUE]
    /\ evicted' = {}
    /\ resizes' = 0
    /\ UNCHANGED <<now, ctx_enabled, max_context_length, global_context, n_appends, rlVars, connVars, botVars, txtVars>>

clear_all_context ==
    /\ user_contexts' = EmptyMap
    /\ global_context' = [global_context EXCEPT !.items = <<>>]
    /\ context_timestamps' = EmptyMap
    /\ appended' = [u \in Names |-> <<>>]
    /\ fresh' = [u \in Names |-> TRUE]
    /\ evicted' = {}
    /\ resizes' = 0
    /\ UNCHANGED <<now, ctx_enabled, max_context_length, n_appends, rlVars, connVars, botVars, txtVars>>

\* the deques of user_contexts rebuilt by set_context_length
RebuildUsers(uc, length) == [u \in DOMAIN uc |-> Deque(uc[u].items, length)]

\* RebuildGlobal that leaves the deque as it is
RebuildGlobalSkipped(gc, length) == gc

\* RebuildGlobal that keeps the oldest entries
RebuildGlobalOldest(gc, length) ==
    [items |-> SubSeq(gc.items, 1, Min(Len(gc.items), length)), maxlen |-> length]

\* the global deque rebuilt by set_context_length
RebuildGlobal(gc, length) == Deque(gc.items, length)

set_context_length(length) ==
    /\ max_context_length' = length
    /\ user_contexts' = RebuildUsers(user_contexts, length)
    /\ global_context' = RebuildGlobal(global_context, length)
    /\ appended' = [u \in Names |->
                      IF u \in DOMAIN user_contexts
                      THEN RebuildUsers(user_contexts, length)[u].items
                      ELSE appended[u]]
    /\ fresh' = [u \in Names |-> IF u \in DOMAIN user_contexts THEN FALSE ELSE fresh[u]]
    /\ evicted' = {}
    /\ resizes' = IF resizes >= 1 /\ length = max_context_length THEN 2 ELSE 1
    /\ UNCHANGED <<now, ctx_enabled, context_timestamps, n_appends, rlVars, connVars, botVars, txtVars>>

\* the loop `for msg in global_context` over the entries of g: msg is appended
\* unless it is in context_parts
RECURSIVE AppendNew(_, _)
AppendNew(context_parts, g) ==
    IF g = <<>> THEN context_parts
    ELSE AppendNew(IF \E i \in 1..Len(context_parts) : context_parts[i] = Head(g)
                   THEN context_parts
                   ELSE Append(context_parts, Head(g)),
                   Tail(g))

\* the context_parts get_context joins with "\n" into the text it returns
ContextParts(username, include_global) ==
    LET user_context == IF username \in DOMAIN user_contexts
                        THEN user_contexts[username].items ELSE <<>>
    IN  IF ~ctx_enabled THEN <<>>
        ELSE IF include_global /\ global_context.items # <<>>
        THEN IF user_context # <<>>
             THEN AppendNew(user_context, global_context.items)
             ELSE global_context.items
        ELSE user_context

\* get_context(username, include_global): nothing is changed
get_context(username, include_global) ==
    /\ txt_op = "none"
    /\ txt_op' = "get_context"
    /\ txt_in' = [kind |-> "context", text |-> <<username>>,
                  max_length |-> IF include_global THEN 1 ELSE 0]
    /\ txt_out' = ContextParts(username, include_global)
    /\ UNCHANGED <<now, rlVars, ctxVars, connVars, botVars>>

\* the clock of the context store advances by one TTL: an identity last active
\* one step ago is at the cutoff and kept, one last active two steps ago is evicted
TickCtx ==
    /\ now < MaxCtxTicks * ContextTTL
    /\ now' = now + ContextTTL
    /\ UNCHANGED <<rlVars, ctxVars, connVars, botVars, txtVars>>

CtxInit ==
    /\ max_context_length = ContextLength
    /\ user_contexts = EmptyMap
    /\ global_context = Deque(<<>>, ContextLength)
    /\ context_timestamps = EmptyMap
    /\ appended = [u \in Names |-> <<>>]
    /\ fresh = [u \in Names |-> TRUE]
    /\ evicted = {}
    /\ n_appends = 0
    /\ resizes = 0

(***************************************************************************)
(* NakenChatClient.  The client runs on one asyncio event loop: a task     *)
(* runs without interruption from one await to the next, so every action   *)
(* below is the code of one task between two awaits.  CancelledError is    *)
(* not an Exception (Python 3.8 and later): `except Exception` lets it     *)
(* pass.  writer.write() and drain() are one step that succeeds or raises. *)
(***************************************************************************)
\* a reference to a task that has completed
DoneTask == -1

\* task ids
TaskIds == 1..(MaxLosses + 3)

\* the ghost counter of failed connect attempts saturates here
FailCap == MaxReconnectAttempts + 1

\* the fields of the client a call reads and writes
Client == [is_connected |-> is_connected, reconnect_attempts |-> reconnect_attempts,
           should_stop |-> should_stop, writer |-> writer, listen_task |-> listen_task,
           reconnect_task |-> reconnect_task, tasks |-> tasks, wire |-> wire,
           main_await |-> main_await]

\* the client's fields become those of c
Commit(c) ==
    /\ is_connected' = c.is_connected
    /\ reconnect_attempts' = c.reconnect_attempts
    /\ should_stop' = c.should_stop
    /\ writer' = c.writer
    /\ listen_task' = c.listen_task
    /\ reconnect_task' = c.reconnect_task
    /\ tasks' = c.tasks
    /\ wire' = c.wire
    /\ main_await' = c.main_await

\* the id asyncio.create_task gives the next task
FreeId(ts) == CHOOSE i \in TaskIds \ DOMAIN ts : \A j \in TaskIds \ DOMAIN ts : i <= j

\* asyncio.create_task(coro): the task starts at the loop's next iteration
CreateTask(ts, kind, pc) ==
    SetKey(ts, FreeId(ts), [kind |-> kind, pc |-> pc, cancelled |-> FALSE])

\* task.cancel() on a task that is not done
Cancel(ts, id) == [ts EXCEPT ![id].cancelled = TRUE]

\* the task completes: every reference to it now refers to a done task
Finish(c, id) ==
    LET done(ref) == IF ref = id THEN DoneTask ELSE ref
    IN [c EXCEPT !.tasks = DelKey(@, id),
                 !.listen_task = done(@),
                 !.reconnect_task = done(@),
                 !.main_await = done(@)]

\* the reference names a task that is not done
Live(ref) == ref \in TaskIds

ReconnectTasks(ts) == {i \in DOMAIN ts : ts[i].kind = "reconnect"}

ListenTasks(ts) == {i \in DOMAIN ts : ts[i].kind = "listen"}

\* HandleConnectionError that schedules nothing
MarkedOnly(c) == [c EXCEPT !.is_connected = FALSE]

\* _handle_connection_error
HandleConnectionError(c) ==
    LET c1 == [c EXCEPT !.is_connected = FALSE]
    IN IF c1.should_stop THEN c1
       ELSE IF c1.reconnect_attempts >= MaxReconnectAttempts THEN c1
       ELSE [c1 EXCEPT !.reconnect_attempts = @ + 1,
                       !.reconnect_task = FreeId(c1.tasks),
                       !.tasks = CreateTask(@, "reconnect", "sleep")]

\* send_message(line) attempts a write
Writes(c) == c.is_connected /\ c.writer # 0

\* SendMessage without the test of is_connected and writer
SendUnchecked(c, line, ok) ==
    IF ok THEN [c EXCEPT !.wire = @ \cup {<<c.writer, line>>}]
    ELSE HandleConnectionError(c)

\* what send_message returns
SendMessageRet(c, ok) == IF ~Writes(c) THEN FALSE ELSE ok

\* send_message(line); ok: the write succeeds
SendMessage(c, line, ok) ==
    IF ~Writes(c) THEN c
    ELSE IF ok THEN [c EXCEPT !.wire = @ \cup {<<c.writer, line>>}]
    ELSE HandleConnectionError(c)

\* Connected that leaves the attempt counter as it is
ConnectedKeepsCount(c, sock, ok) ==
    SendMessage([c EXCEPT !.writer = sock, !.is_connected = TRUE], ".n", ok)

\* the body of connect() after open_connection has returned the socket sock:
\* the flags are set and the name-registration line is sent
Connected(c, sock, ok) ==
    SendMessage([c EXCEPT !.writer = sock, !.is_connected = TRUE,
                          !.reconnect_attempts = 0], ".n", ok)

\* the end of connect(): the read loop is started
StartListening(c) ==
    [c EXCEPT !.listen_task = FreeId(c.tasks),
              !.tasks = CreateTask(@, "listen", "start")]

\* the finally clause of _listen_for_messages, and the task's end
ListenExit(c, id) ==
    Finish(IF ~c.should_stop THEN HandleConnectionError(c) ELSE c, id)

\* the loop condition of _listen_for_messages
ListenLoop(c, id) ==
    IF c.is_connected /\ c.writer # 0 /\ ~c.should_stop
    THEN [c EXCEPT !.tasks[id].pc = "read"]
    ELSE ListenExit(c, id)

\* a step of task id that is at pc and has no cancellation pending
At(id, kind, pc) ==
    /\ id \in DOMAIN tasks
    /\ tasks[id].kind = kind
    /\ tasks[id].pc = pc
    /\ ~tasks[id].cancelled

\* a write of this step may fail only while the failure budget lasts
MayFail(c, ok) == ok \/ (Writes(c) /\ losses < MaxLosses)

\* the failure budget after a write
Spent(c, ok) == IF ~ok /\ Writes(c) THEN losses + 1 ELSE losses

connFrame == <<now, rlVars, ctxVars, botVars, txtVars>>

\* the read loop task runs for the first time
ListenStart(id) ==
    /\ At(id, "listen", "start")
    /\ Commit(ListenLoop(Client, id))
    /\ UNCHANGED <<closed, n_socks, main_pc, failed_connects, losses, was_connected, connFrame>>

\* readline() returns no data or raises: the peer closed the connection
ListenEOF(id) ==
    /\ At(id, "listen", "read")
    /\ losses < MaxLosses
    /\ losses' = losses + 1
    /\ Commit(ListenExit(Client, id))
    /\ UNCHANGED <<closed, n_socks, main_pc, failed_connects, was_connected, connFrame>>

\* a line whose handler sends at once (the rate-limit notice) and returns
ListenNotice(id, ok) ==
    /\ At(id, "listen", "read")
    /\ MayFail(Client, ok)
    /\ losses' = Spent(Client, ok)
    /\ Commit(ListenLoop(SendMessage(Client, "msg", ok), id))
    /\ UNCHANGED <<closed, n_socks, main_pc, failed_connects, was_connected, connFrame>>

\* a line whose handler starts a generation: it waits in safe_delay
ListenGenerate(id) ==
    /\ At(id, "listen", "read")
    /\ Commit([Client EXCEPT !.tasks[id].pc = "delay"])
    /\ UNCHANGED <<closed, n_socks, main_pc, failed_connects, losses, was_connected, connFrame>>

\* the response delay is over: the handler calls the generation backend
DelayDone(id) ==
    /\ At(id, "listen", "delay")
    /\ Commit([Client EXCEPT !.tasks[id].pc = "generate"])
    /\ UNCHANGED <<closed, n_socks, main_pc, failed_connects, losses, was_connected, connFrame>>

\* the backend call returns: the reply or the apology is sent, the loop goes on
GenerateDone(id, ok) ==
    /\ At(id, "listen", "generate")
    /\ MayFail(Client, ok)
    /\ losses' = Spent(Client, ok)
    /\ Commit(ListenLoop(SendMessage(Client, "msg", ok), id))
    /\ UNCHANGED <<closed, n_socks, main_pc, failed_connects, was_connected, connFrame>>

\* CancelledError is raised in the read loop task: a task that has not started
\* ends, safe_delay swallows the error, anywhere else the loop is left
Cancelled(c, id) ==
    CASE c.tasks[id].pc = "start" -> Finish(c, id)
      [] c.tasks[id].pc = "delay" ->
           [c EXCEPT !.tasks[id] = [kind |-> "listen", pc |-> "generate",
                                    cancelled |-> FALSE]]
      [] OTHER -> ListenExit(c, id)

\* CancelledError reaches the read loop task
ListenCancelled(id) ==
    /\ id \in DOMAIN tasks
    /\ tasks[id].kind = "listen"
    /\ tasks[id].cancelled
    /\ Commit(Cancelled(Client, id))
    /\ UNCHANGED <<closed, n_socks, main_pc, failed_connects, losses, was_connected, connFrame>>

\* _reconnect: the sleep of reconnect_delay is over
SleepDone(id) ==
    /\ At(id, "reconnect", "sleep")
    /\ Commit(IF should_stop THEN Finish(Client, id)
              ELSE [Client EXCEPT !.tasks[id].pc = "open"])
    /\ UNCHANGED <<closed, n_socks, main_pc, failed_connects, losses, was_connected, connFrame>>

\* _reconnect: connect() returned False; the next attempt is scheduled
ReconnectFailed(c, id) ==
    Finish(IF ~c.should_stop
           THEN [c EXCEPT !.reconnect_task = FreeId(c.tasks),
                          !.tasks = CreateTask(@, "reconnect", "sleep")]
           ELSE c, id)

\* open_connection fails in connect() called by _reconnect
OpenFail(id) ==
    /\ At(id, "reconnect", "open")
    /\ failed_connects' = Min(failed_connects + 1, FailCap)
    /\ Commit(ReconnectFailed(Client, id))
    /\ UNCHANGED <<closed, n_socks, main_pc, losses, was_connected, connFrame>>

\* open_connection succeeds in connect() called by _reconnect
OpenOk(id, ok) ==
    /\ At(id, "reconnect", "open")
    /\ n_socks < MaxSockets
    /\ n_socks' = n_socks + 1
    /\ failed_connects' = 0
    /\ LET c == Connected(Client, n_socks + 1, ok)
       IN /\ MayFail([Client EXCEPT !.writer = n_socks + 1, !.is_connected = TRUE], ok)
          /\ losses' = IF ok THEN losses ELSE losses + 1
          /\ Commit([c EXCEPT !.tasks[id].pc = "settle"])
    /\ UNCHANGED <<closed, main_pc, was_connected, connFrame>>

\* connect() called by _reconnect: the sleep of one second is over
SettleDone(id) ==
    /\ At(id, "reconnect", "settle")
    /\ Commit(Finish(StartListening(Client), id))
    /\ UNCHANGED <<closed, n_socks, main_pc, failed_connects, losses, was_connected, connFrame>>

\* CancelledError reaches the reconnection task
ReconnectCancelled(id) ==
    /\ id \in DOMAIN tasks
    /\ tasks[id].kind = "reconnect"
    /\ tasks[id].cancelled
    /\ Commit(Finish(Client, id))
    /\ UNCHANGED <<closed, n_socks, main_pc, failed_connects, losses, was_connected, connFrame>>

\* the bot calls connect()
MainConnect ==
    /\ main_pc = "init"
    /\ main_pc' = "open"
    /\ UNCHANGED <<is_connected, reconnect_attempts, should_stop, writer, listen_task,
                   reconnect_task, tasks, wire, closed, n_socks, main_await,
                   failed_connects, losses, was_connected, connFrame>>

\* open_connection fails in the bot's connect(): the bot gives up
MainOpenFail ==
    /\ main_pc = "open"
    /\ main_pc' = "failed"
    /\ failed_connects' = Min(failed_connects + 1, FailCap)
    /\ UNCHANGED <<is_connected, reconnect_attempts, should_stop, writer, listen_task,
                   reconnect_task, tasks, wire, closed, n_socks, main_await,
                   losses, was_connected, connFrame>>

\* open_connection succeeds in the bot's connect()
MainOpenOk(ok) ==
    /\ main_pc = "open"
    /\ n_socks < MaxSockets
    /\ n_socks' = n_socks + 1
    /\ failed_connects' = 0
    /\ ok \/ losses < MaxLosses
    /\ losses' = IF ok THEN losses ELSE losses + 1
    /\ Commit(Connected(Client, n_socks + 1, ok))
    /\ main_pc' = "settle"
    /\ UNCHANGED <<closed, was_connected, connFrame>>

\* the bot's connect(): the sleep of one second is over
MainSettleDone ==
    /\ main_pc = "settle"
    /\ Commit(StartListening(Client))
    /\ main_pc' = "running"
    /\ UNCHANGED <<closed, n_socks, failed_connects, losses, was_connected, connFrame>>

\* disconnect(), from the quit line on; ok: a write of the quit line succeeds
DisconnectQuit(c, ok) ==
    IF c.writer # 0
    THEN [c |-> SendMessage(c, ".q", ok), pc |-> "grace", writes |-> Writes(c)]
    ELSE [c |-> c, pc |-> "stopped", writes |-> FALSE]

\* disconnect(), from the cancellation of the reconnection task on
DisconnectReconnect(c, ok) ==
    IF Live(c.reconnect_task)
    THEN [c |-> [c EXCEPT !.tasks = Cancel(@, c.reconnect_task),
                          !.main_await = c.reconnect_task],
          pc |-> "await_reconnect", writes |-> FALSE]
    ELSE DisconnectQuit(c, ok)

\* disconnect(), from its first line on
DisconnectListen(c, ok) ==
    LET c1 == [c EXCEPT !.should_stop = TRUE, !.is_connected = FALSE]
    IN IF Live(c1.listen_task)
       THEN [c |-> [c1 EXCEPT !.tasks = Cancel(@, c1.listen_task),
                              !.main_await = c1.listen_task],
             pc |-> "await_listen", writes |-> FALSE]
       ELSE DisconnectReconnect(c1, ok)

\* the bot calls disconnect()
Disconnect(ok) ==
    /\ main_pc = "running"
    /\ was_connected' = (is_connected /\ writer # 0 /\ writer \notin closed)
    /\ LET r == DisconnectListen(Client, ok)
       IN /\ ok \/ (r.writes /\ losses < MaxLosses)
          /\ losses' = IF ok THEN losses ELSE losses + 1
          /\ Commit(r.c)
          /\ main_pc' = r.pc
    /\ UNCHANGED <<closed, n_socks, failed_connects, connFrame>>

\* disconnect(): the awaited read loop task has completed
DisconnectListenDone(ok) ==
    /\ main_pc = "await_listen"
    /\ main_await = DoneTask
    /\ LET r == DisconnectReconnect([Client EXCEPT !.listen_task = 0, !.main_await = 0], ok)
       IN /\ ok \/ (r.writes /\ losses < MaxLosses)
          /\ losses' = IF ok THEN losses ELSE losses + 1
          /\ Commit(r.c)
          /\ main_pc' = r.pc
    /\ UNCHANGED <<closed, n_socks, failed_connects, was_connected, connFrame>>

\* disconnect(): the awaited reconnection task has completed
DisconnectReconnectDone(ok) ==
    /\ main_pc = "await_reconnect"
    /\ main_await = DoneTask
    /\ LET r == DisconnectQuit([Client EXCEPT !.reconnect_task = 0, !.main_await = 0], ok)
       IN /\ ok \/ (r.writes /\ losses < MaxLosses)
          /\ losses' = IF ok THEN losses ELSE losses + 1
          /\ Commit(r.c)
          /\ main_pc' = r.pc
    /\ UNCHANGED <<closed, n_socks, failed_connects, was_connected, connFrame>>

\* disconnect(): the grace period is over; the writer is closed
DisconnectClose ==
    /\ main_pc = "grace"
    /\ closed' = IF writer # 0 THEN closed \cup {writer} ELSE closed
    /\ main_pc' = "stopped"
    /\ UNCHANGED <<is_connected, reconnect_attempts, should_stop, writer, listen_task,
                   reconnect_task, tasks, wire, n_socks, main_await,
                   failed_connects, losses, was_connected, connFrame>>

ConnInit ==
    /\ is_connected = FALSE
    /\ reconnect_attempts = 0
    /\ should_stop = FALSE
    /\ writer = 0
    /\ listen_task = 0
    /\ reconnect_task = 0
    /\ tasks = EmptyMap
    /\ wire = {}
    /\ closed = {}
    /\ n_socks = 0
    /\ main_pc = "init"
    /\ main_await = 0
    /\ failed_connects = 0
    /\ losses = 0
    /\ was_connected = FALSE

(***************************************************************************)
(* Text.  A str is a sequence of one-character strings; None is a value no *)
(* str equals.                                                             *)
(***************************************************************************)
None == <<"None">>

\* the character "\x00"
NUL == "NUL"

\* what str.strip() removes and \s matches
Whitespace == {" ", "\t", "\n", "\r"}

\* what \d matches
Digits == {"0", "1", "2", "3", "4", "5", "6", "7", "8", "9"}

UpperCase == <<"A", "B", "C", "D", "E", "F", "G", "H", "I", "J", "K", "L", "M",
               "N", "O", "P", "Q", "R", "S", "T", "U", "V", "W", "X", "Y", "Z">>

LowerCase == <<"a", "b", "c", "d", "e", "f", "g", "h", "i", "j", "k", "l", "m",
               "n", "o", "p", "q", "r", "s", "t", "u", "v", "w", "x", "y", "z">>

LowerChar(ch) ==
    IF \E i \in 1..26 : UpperCase[i] = ch
    THEN LowerCase[CHOOSE i \in 1..26 : UpperCase[i] = ch]
    ELSE ch

\* str.lower()
lower(s) == [i \in 1..Len(s) |-> LowerChar(s[i])]

\* s[n:] for n >= 0
Drop(s, n) == SubSeq(s, n + 1, Len(s))

\* s[:n], a negative n counting from the end
Slice(s, n) ==
    IF n >= 0 THEN SubSeq(s, 1, Min(n, Len(s)))
    ELSE SubSeq(s, 1, IF Len(s) + n > 0 THEN Len(s) + n ELSE 0)

\* str.startswith and str.endswith
StartsWith(s, p) == Len(s) >= Len(p) /\ SubSeq(s, 1, Len(p)) = p
EndsWith(s, p) == Len(s) >= Len(p) /\ SubSeq(s, Len(s) - Len(p) + 1, Len(s)) = p

\* the places, counted from 0, where p occurs in s
Occurrences(s, p) ==
    {i \in 0..(Len(s) - Len(p)) : SubSeq(s, i + 1, i + Len(p)) = p}

\* str.find and str.rfind
find(s, p) ==
    IF Occurrences(s, p) = {} THEN -1
    ELSE CHOOSE i \in Occurrences(s, p) : \A j \in Occurrences(s, p) : i <= j
rfind(s, p) ==
    IF Occurrences(s, p) = {} THEN -1
    ELSE CHOOSE i \in Occurrences(s, p) : \A j \in Occurrences(s, p) : i >= j

\* the number of characters of class at the start and at the end of s
LeadRun(s, class) ==
    CHOOSE k \in 0..Len(s) :
        /\ \A i \in 1..k : s[i] \in class
        /\ k = Len(s) \/ s[k + 1] \notin class
TrailRun(s, class) ==
    CHOOSE k \in 0..Len(s) :
        /\ \A i \in (Len(s) - k + 1)..Len(s) : s[i] \in class
        /\ k = Len(s) \/ s[Len(s) - k] \notin class

\* str.strip()
lstrip(s) == Drop(s, LeadRun(s, Whitespace))
strip(s) == LET t == lstrip(s) IN SubSeq(t, 1, Len(t) - TrailRun(t, Whitespace))

\* s.replace('\r\n', '\n').replace('\r', '\n')
RECURSIVE NormalizeNewlines(_)
NormalizeNewlines(s) ==
    IF s = <<>> THEN <<>>
    ELSE IF s[1] = "\r"
         THEN <<"\n">> \o NormalizeNewlines(
                  IF Len(s) >= 2 /\ s[2] = "\n" THEN Drop(s, 2) ELSE Tail(s))
         ELSE <<s[1]>> \o NormalizeNewlines(Tail(s))

NotNul(ch) == ch # NUL

sanitize_message(message) ==
    strip(NormalizeNewlines(SelectSeq(message, NotNul)))

\* the length of the match of  open \d+ close  at the start of s, 0 for no match
Numbered(s, open, close) ==
    LET d == LeadRun(Drop(s, 1), Digits)
    IN  IF Len(s) >= d + 2 /\ s[1] = open /\ d >= 1 /\ s[d + 2] = close
        THEN d + 2 ELSE 0

\* the place of the first ":" of s, 0 when it has none
FirstColon(s) == find(s, <<":">>) + 1

\* the group of (.+)$ matched at the start of s: "." matches no newline and "$"
\* matches at the end and before a newline that ends s
DotPlusEnd(s) ==
    LET body == IF s # <<>> /\ s[Len(s)] = "\n" THEN Slice(s, -1) ELSE s
    IN  IF body # <<>> /\ \A i \in 1..Len(body) : body[i] # "\n" THEN body ELSE None

\* the group of \s*(.+)$ matched at the start of s: \s* gives characters back
\* until the rest matches
ContentGroup(s) ==
    LET ks == {k \in 0..LeadRun(s, Whitespace) : DotPlusEnd(Drop(s, k)) # None}
    IN  IF ks = {} THEN None
        ELSE DotPlusEnd(Drop(s, CHOOSE k \in ks : \A j \in ks : k >= j))

\* no match
NoGroups == <<None, None>>

\* the groups of ([^:]+):\s*(.+)$ matched at the start of s
UserLine(s) ==
    LET p == FirstColon(s)
    IN  IF p >= 2 /\ ContentGroup(Drop(s, p)) # None
        THEN <<SubSeq(s, 1, p - 1), ContentGroup(Drop(s, p))>>
        ELSE NoGroups

\* the username and the content group of the three patterns, in their order
Grammar(message, k) ==
    CASE k = 1 -> IF Numbered(message, "[", "]") > 0
                  THEN UserLine(Drop(message, Numbered(message, "[", "]")))
                  ELSE NoGroups
      [] k = 2 -> IF Numbered(message, "<", ">") > 0
                  THEN UserLine(Drop(message, Numbered(message, "<", ">")))
                  ELSE NoGroups
      [] k = 3 -> UserLine(message)

\* the groups of the first pattern that matches
FirstGrammar(message) ==
    IF Grammar(message, 1) # NoGroups THEN Grammar(message, 1)
    ELSE IF Grammar(message, 2) # NoGroups THEN Grammar(message, 2)
    ELSE Grammar(message, 3)

extract_username_from_message(message) == FirstGrammar(message)[1]

_extract_message_content(message) ==
    IF FirstGrammar(message) = NoGroups THEN message ELSE FirstGrammar(message)[2]

\* [^:]+ \(private\): matched at the start of s
PrivateTag(s) ==
    LET p == FirstColon(s)
        tag == <<" ", "(", "p", "r", "i", "v", "a", "t", "e", ")">>
    IN  p >= 2 /\ p - 1 > Len(tag) /\ EndsWith(SubSeq(s, 1, p - 1), tag)

\* what .* can match at the start of s
FirstLine(s) ==
    IF find(s, <<"\n">>) = -1 THEN s ELSE SubSeq(s, 1, find(s, <<"\n">>))

\* ^\[.*\]\s*$
Bracketed(message) ==
    /\ message # <<>> /\ message[1] = "["
    /\ \E j \in 2..Len(message) :
        /\ message[j] = "]"
        /\ \A i \in 2..(j - 1) : message[i] # "\n"
        /\ \A i \in (j + 1)..Len(message) : message[i] \in Whitespace

\* ^Name\s+Channel\s+Location
UserListHeader(message) ==
    LET a == Drop(message, 4)
        b == Drop(lstrip(a), 7)
    IN  /\ StartsWith(message, <<"N", "a", "m", "e">>)
        /\ LeadRun(a, Whitespace) >= 1
        /\ StartsWith(lstrip(a), <<"C", "h", "a", "n", "n", "e", "l">>)
        /\ LeadRun(b, Whitespace) >= 1
        /\ StartsWith(lstrip(b), <<"L", "o", "c", "a", "t", "i", "o", "n">>)

\* ^Message sent to \[(\d+)\][^:]+: <(\d+)>[^:]+ \(private\):
PrivateConfirmation(message) ==
    LET head == <<"M", "e", "s", "s", "a", "g", "e", " ", "s", "e", "n", "t",
                  " ", "t", "o", " ">>
        a == Drop(message, Len(head))
        b == Drop(a, Numbered(a, "[", "]"))
        c == Drop(b, FirstColon(b))
        d == Drop(c, 1)
    IN  /\ StartsWith(message, head)
        /\ Numbered(a, "[", "]") > 0
        /\ FirstColon(b) >= 2
        /\ StartsWith(c, <<" ">>)
        /\ Numbered(d, "<", ">") > 0
        /\ PrivateTag(Drop(d, Numbered(d, "<", ">")))

_is_system_message(message) ==
    \/ StartsWith(message, <<">", ">">>) /\ Len(message) >= 3
        /\ message[3] \in Whitespace
    \/ Bracketed(message)
    \/ StartsWith(message, <<"T", "o", "t", "a", "l", ":">>)
        /\ LeadRun(lstrip(Drop(message, 6)), Digits) >= 1
    \/ UserListHeader(message)
    \/ StartsWith(message, <<"L", "i", "s", "t", " ", "o", "f", " ", "c", "o",
                             "m", "m", "a", "n", "d", "s", ":">>)
    \/ StartsWith(message, <<"Y", "o", "u", " ", "j", "u", "s", "t", " ", "l",
                             "o", "g", "g", "e", "d", " ", "o", "n">>)
    \/ StartsWith(message, <<"h", "a", "s", " ", "j", "o", "i", "n", "e", "d">>)
    \/ StartsWith(message, <<"h", "a", "s", " ", "l", "e", "f", "t">>)
    \/ StartsWith(message, <<"h", "a", "s", " ", "q", "u", "i", "t">>)
    \/ StartsWith(message, <<"h", "t", "t", "p", ":", "/", "/">>)
        /\ find(FirstLine(Drop(message, 7)), <<"e", "m", "a", "i", "l", ":">>) # -1
    \/ StartsWith(message, <<"h", "t", "t", "p", ":", "/", "/">>)
    \/ StartsWith(message, <<"e", "m", "a", "i", "l", ":">>)
    \/ StartsWith(message, <<"C", "o", "m", "m", "a", "n", "d", " ", "f", "r",
                             "o", "m", " ", "h", "t", "t", "p", "s", ":">>)
    \/ Numbered(message, "<", ">") > 0
        /\ PrivateTag(Drop(message, Numbered(message, "<", ">")))
    \/ PrivateConfirmation(message)

\* bot.username and bot.trigger of the configuration, as text
BotName == <<"b", "o", "t">>
Trigger == <<"B", "o", "t">>

_is_bot_message(message) ==
    \/ Numbered(message, "[", "]") > 0
        /\ StartsWith(Drop(message, Numbered(message, "[", "]")), BotName \o <<":">>)
    \/ Numbered(message, "<", ">") > 0
        /\ StartsWith(Drop(message, Numbered(message, "<", ">")), BotName \o <<":">>)
    \/ StartsWith(message, BotName \o <<":">>)

is_bot_trigger(message, trigger) ==
    /\ message # <<>> /\ trigger # <<>>
    /\ find(lower(message), lower(trigger)) # -1

\* one turn of the loop over the separators
StripSeparator(s, sep) == IF StartsWith(s, <<sep>>) THEN strip(Drop(s, 1)) ELSE s

\* AfterTrigger that keeps the trigger
FromTrigger(message, trigger) ==
    strip(Drop(message, find(lower(message), lower(trigger))))

\* the text that follows the first occurrence of the trigger, stripped
AfterTrigger(message, trigger) ==
    strip(Drop(message, find(lower(message), lower(trigger)) + Len(trigger)))

_extract_prompt(content) ==
    IF content = <<>> \/ find(lower(content), lower(Trigger)) = -1 THEN None
    ELSE LET after_trigger ==
                 StripSeparator(StripSeparator(StripSeparator(StripSeparator(
                     AfterTrigger(content, Trigger), ":"), "-"), ">"), "|")
         IN  IF after_trigger = <<>> THEN None ELSE after_trigger

\* is_bot_command that does not look at what follows the trigger
TriggerOnly(message, trigger) == is_bot_trigger(message, trigger)

is_bot_command(message, trigger) ==
    /\ is_bot_trigger(message, trigger)
    /\ Len(AfterTrigger(message, trigger)) > 0

\* parse_command returned None
NoCommand == [command |-> None, args |-> None]

\* the command and the args of the dict parse_command returns
parse_command(message, trigger) ==
    IF ~is_bot_command(message, trigger) THEN NoCommand
    ELSE LET after_trigger == AfterTrigger(message, trigger)
             n == LeadRun(after_trigger, {after_trigger[i] : i \in 1..Len(after_trigger)}
                                         \ Whitespace)
         IN  [command |-> lower(SubSeq(after_trigger, 1, n)),
              args |-> lstrip(Drop(after_trigger, n))]

\* truncate_response that takes a space at 0.8 * max_length as well
TruncateAtOrAfter(response, max_length) ==
    IF Len(response) <= max_length THEN response
    ELSE LET truncated == Slice(response, max_length - 3)
             last_space == rfind(truncated, <<" ">>)
         IN  IF 10 * last_space >= 8 * max_length
             THEN Slice(truncated, last_space) \o <<".", ".", ".">>
             ELSE truncated \o <<".", ".", ".">>

truncate_response(response, max_length) ==
    IF Len(response) <= max_length THEN response
    ELSE LET truncated == Slice(response, max_length - 3)
             last_space == rfind(truncated, <<" ">>)
         IN  IF 10 * last_space > 8 * max_length
             THEN Slice(truncated, last_space) \o <<".", ".", ".">>
             ELSE truncated \o <<".", ".", ".">>

\* the handler is not called
Skipped == [handler |-> FALSE, username |-> None, content |-> None]

\* Classified that parses the content before it looks for system lines and echoes
ParsedFirst(clean_message) ==
    IF clean_message = <<>> THEN Skipped
    ELSE IF _extract_message_content(clean_message) = <<>> THEN Skipped
    ELSE IF FirstGrammar(clean_message) # NoGroups
    THEN [handler |-> TRUE,
          username |-> extract_username_from_message(clean_message),
          content |-> _extract_message_content(clean_message)]
    ELSE IF _is_system_message(clean_message) THEN Skipped
    ELSE IF _is_bot_message(clean_message) THEN Skipped
    ELSE [handler |-> TRUE,
          username |-> extract_username_from_message(clean_message),
          content |-> _extract_message_content(clean_message)]

\* what _process_message does with the sanitized line: whether the handler is
\* called, and with which username and content
Classified(clean_message) ==
    IF clean_message = <<>> THEN Skipped
    ELSE IF _is_system_message(clean_message) THEN Skipped
    ELSE IF _is_bot_message(clean_message) THEN Skipped
    ELSE IF _extract_message_content(clean_message) = <<>> THEN Skipped
    ELSE [handler |-> TRUE,
          username |-> extract_username_from_message(clean_message),
          content |-> _extract_message_content(clean_message)]

_process_message(message) == Classified(sanitize_message(message))

(***************************************************************************)
(* MessageProcessor.  process_message runs in the read loop task, which    *)
(* awaits it: the positions "delay" and "generate" of that task are the    *)
(* awaits of _process_ai_request.                                          *)
(***************************************************************************)
\* bot.max_response_length of the configuration
MaxResponseLength == 20

\* the texts generate_response returns
Replies == {<<"o", "k">>,
            <<"i", "t", " ", "i", "s", " ", "a", " ", "q", "u", "a", "r", "t", "e",
              "r", " ", "p", "a", "s", "t", " ", "t", "e", "n">>}

\* how a call of generate_response ends: with a text, with None (an error of the
\* backend, a timeout, a malformed payload) or with an exception
Outcomes == {"response", "none", "raise"}

\* the three collections of the context store
ContextStore == [uc |-> user_contexts, ts |-> context_timestamps, gc |-> global_context]

\* FormattedText with the content alone
Unformatted(username, message, is_bot) == message

\* the formatted turn of add_message, as text
FormattedText(username, message, is_bot) ==
    IF ~is_bot THEN username \o <<":", " ">> \o message
    ELSE <<"A", "s", "s", "i", "s", "t", "a", "n", "t", ":", " ">> \o message

\* AddMessage that appends the turn to the deque of every identity
AddMessageToAll(store, username, message, is_bot) ==
    IF ~ctx_enabled THEN store
    ELSE LET formatted_message == FormattedText(username, message, is_bot)
             uc0 == IF username \in DOMAIN store.uc THEN store.uc
                    ELSE SetKey(store.uc, username, Deque(<<>>, max_context_length))
             uc1 == [u \in DOMAIN uc0 |-> DequeAppend(uc0[u], formatted_message)]
             ts1 == SetKey(store.ts, username, now)
             gone == ExpiredUsers(ts1, now)
         IN  [uc |-> DropUsers(uc1, gone), ts |-> DropUsers(ts1, gone),
              gc |-> DequeAppend(store.gc, formatted_message)]

\* the collections after add_message(username, message, is_bot)
AddMessage(store, username, message, is_bot) ==
    IF ~ctx_enabled THEN store
    ELSE LET formatted_message == FormattedText(username, message, is_bot)
             uc0 == IF username \in DOMAIN store.uc THEN store.uc
                    ELSE SetKey(store.uc, username, Deque(<<>>, max_context_length))
             uc1 == [uc0 EXCEPT ![username] = DequeAppend(@, formatted_message)]
             ts1 == SetKey(store.ts, username, now)
             gone == ExpiredUsers(ts1, now)
         IN  [uc |-> DropUsers(uc1, gone), ts |-> DropUsers(ts1, gone),
              gc |-> DequeAppend(store.gc, formatted_message)]

\* the two collections of the rate limiter
Limiter == [ur |-> user_requests, gr |-> global_requests]

\* the collections after is_allowed(user_id)
AfterIsAllowed(lim, user_id) ==
    IF ~enabled THEN lim
    ELSE [ur |-> DefaultGet(CleanUsers(lim.ur, now), user_id),
          gr |-> CleanGlobal(lim.gr, now)]

\* the collections after record_request(user_id)
AfterRecordRequest(lim, user_id) ==
    IF ~enabled THEN lim
    ELSE [ur |-> CleanUsers([DefaultGet(lim.ur, user_id) EXCEPT
                                 ![user_id] = Append(@, now)], now),
          gr |-> CleanGlobal(Append(lim.gr, now), now)]

\* the collections after get_user_stats(user_id)
AfterGetUserStats(lim) ==
    [ur |-> CleanUsers(lim.ur, now), gr |-> CleanGlobal(lim.gr, now)]

\* Stage without the rate limit
StageUnlimited(username, content) ==
    IF username = None \/ username = <<>> THEN "no_username"
    ELSE IF ~is_bot_trigger(content, Trigger) THEN "no_trigger"
    ELSE IF _extract_prompt(content) = None THEN "no_prompt"
    ELSE "admitted"

\* Stage without the test of the username
StageAnyone(username, content) ==
    IF ~is_bot_trigger(content, Trigger) THEN "no_trigger"
    ELSE IF _extract_prompt(content) = None THEN "no_prompt"
    ELSE IF ~IsAllowedRet(username) THEN "refused"
    ELSE "admitted"

\* where process_message(full_message, username, content) returns, or that it
\* goes on to _process_ai_request
Stage(username, content) ==
    IF username = None \/ username = <<>> THEN "no_username"
    ELSE IF ~is_bot_trigger(content, Trigger) THEN "no_trigger"
    ELSE IF _extract_prompt(content) = None THEN "no_prompt"
    ELSE IF ~IsAllowedRet(username) THEN "refused"
    ELSE "admitted"

\* OutboundLine when every outcome is answered with the reply
ReplyAlways(outcome) == "reply"

\* the line _process_ai_request sends after generate_response: the reply and
\* the two apologies
OutboundLine(outcome) ==
    CASE outcome = "response" -> "reply"
      [] outcome = "none" -> "sorry"
      [] outcome = "raise" -> "error"

\* the context store becomes store, the rate limiter lim
PutStore(store) ==
    /\ user_contexts' = store.uc
    /\ context_timestamps' = store.ts
    /\ global_context' = store.gc

PutLimiter(lim) ==
    /\ user_requests' = lim.ur
    /\ global_requests' = lim.gr

\* process_message(full_message, username, content), which returns at stage or
\* goes on to _process_ai_request, whose task_id is <<username, t>>
ProcessMessage(id, username, content, stage, t, ok) ==
    /\ PutStore(IF stage = "no_username" THEN ContextStore
                ELSE AddMessage(ContextStore, username, content, FALSE))
    /\ PutLimiter(CASE stage = "refused" ->
                        AfterGetUserStats(AfterIsAllowed(Limiter, username))
                   [] stage = "admitted" ->
                        AfterRecordRequest(AfterIsAllowed(Limiter, username), username)
                   [] OTHER -> Limiter)
    /\ loop_time' = IF stage = "admitted" THEN t ELSE loop_time
    /\ IF stage = "admitted" /\ <<username, t>> \notin processing_tasks
       THEN /\ processing_tasks' = processing_tasks \cup {<<username, t>>}
            /\ requests' = SetKey(requests, id,
                                  [username |-> username,
                                   prompt |-> _extract_prompt(content),
                                   task_id |-> <<username, t>>])
            /\ Commit([Client EXCEPT !.tasks[id].pc = "delay"])
       ELSE /\ UNCHANGED <<processing_tasks, requests>>
            /\ Commit(IF stage = "refused"
                      THEN ListenLoop(SendMessage(Client, "notice", ok), id)
                      ELSE ListenLoop(Client, id))
    /\ sent_log' = IF stage = "refused"
                   THEN Append(sent_log, [line |-> "notice", to |-> username,
                                          after |-> "refused"])
                   ELSE sent_log
    /\ IF stage = "refused" THEN MayFail(Client, ok) ELSE ok
    /\ losses' = IF stage = "refused" THEN Spent(Client, ok) ELSE losses

\* _process_message with what it made of the line
Dispatch(id, m, t, ok) ==
    IF m.handler
    THEN ProcessMessage(id, m.username, m.content, Stage(m.username, m.content), t, ok)
    ELSE /\ ok
         /\ Commit(ListenLoop(Client, id))
         /\ UNCHANGED <<user_contexts, context_timestamps, global_context,
                        user_requests, global_requests, loop_time, processing_tasks,
                        requests, sent_log, losses>>

\* a line is read by task id and handled up to the handler's first await;
\* t: what loop.time() returns; ok: the write of the notice succeeds
Receive(id, line, t, ok) ==
    /\ At(id, "listen", "read")
    /\ n_lines < MaxLines
    /\ n_lines' = n_lines + 1
    /\ last_line' = line
    /\ Dispatch(id, _process_message(line), t, ok)
    /\ UNCHANGED <<now, enabled, rl_ret, rec_log, glob_log, ctx_enabled,
                   max_context_length, appended, fresh, evicted, n_appends, resizes,
                   closed, n_socks, main_pc, failed_connects, was_connected, gen_log,
                   raised_at, txtVars>>

\* Absorbed without the try of _process_message: the exception reaches the
\* `except Exception` of the read loop, which leaves the loop
Propagated(c, id) == ListenExit(c, id)

\* the handler's exception is caught in _process_message, which returns to the
\* read loop
Absorbed(c, id) == ListenLoop(c, id)

\* a line is read by task id and the handler raises an exception before its
\* first await; done: what process_message has completed by then
HandlerRaises(id, line, done) ==
    /\ At(id, "listen", "read")
    /\ n_lines < MaxLines
    /\ n_lines' = n_lines + 1
    /\ last_line' = line
    /\ raised_at' = n_lines + 1
    /\ \E m \in {_process_message(line)} :
           /\ m.handler
           /\ done = "add_message" => Stage(m.username, m.content) # "no_username"
           /\ done = "record_request" => Stage(m.username, m.content) = "admitted"
           /\ PutStore(IF done = "nothing" THEN ContextStore
                       ELSE AddMessage(ContextStore, m.username, m.content, FALSE))
           /\ PutLimiter(IF done = "record_request"
                         THEN AfterRecordRequest(AfterIsAllowed(Limiter, m.username),
                                                 m.username)
                         ELSE Limiter)
    /\ Commit(Absorbed(Client, id))
    /\ UNCHANGED <<now, enabled, rl_ret, rec_log, glob_log, ctx_enabled,
                   max_context_length, appended, fresh, evicted, n_appends, resizes,
                   closed, n_socks, main_pc, failed_connects, losses, was_connected,
                   processing_tasks, loop_time, requests, gen_log, sent_log, txtVars>>

\* safe_delay is over: generate_response is called
Generate(id) ==
    /\ At(id, "listen", "delay")
    /\ Commit([Client EXCEPT !.tasks[id].pc = "generate"])
    /\ gen_log' = Append(gen_log, <<requests[id].username, requests[id].prompt>>)
    /\ UNCHANGED <<now, rlVars, ctxVars, closed, n_socks, main_pc, failed_connects,
                   losses, was_connected, processing_tasks, loop_time, requests,
                   sent_log, n_lines, last_line, raised_at, txtVars>>

\* ReplyStored that stores the reply once it has been written
StoredWhenSent(store, outcome, response, ok) ==
    IF outcome = "response" /\ ok
    THEN AddMessage(store, BotName, response, TRUE)
    ELSE store

\* the context store after generate_response: the truncated reply is added
\* before send_message is called, whose write succeeds (ok) or fails
ReplyStored(store, outcome, response, ok) ==
    IF outcome = "response"
    THEN AddMessage(store, BotName, response, TRUE)
    ELSE store

\* generate_response has ended: the reply, or an apology, is sent; the task is
\* removed from processing_tasks and the read loop goes on
Respond(id, outcome, reply, ok) ==
    /\ At(id, "listen", "generate")
    /\ MayFail(Client, ok)
    /\ losses' = Spent(Client, ok)
    /\ PutStore(ReplyStored(ContextStore, outcome,
                            truncate_response(reply, MaxResponseLength), ok))
    /\ sent_log' = Append(sent_log, [line |-> OutboundLine(outcome),
                                     to |-> requests[id].username,
                                     after |-> outcome])
    /\ processing_tasks' = processing_tasks \ {requests[id].task_id}
    /\ requests' = DelKey(requests, id)
    /\ Commit(ListenLoop(SendMessage(Client, OutboundLine(outcome), ok), id))
    /\ UNCHANGED <<now, rlVars, ctx_enabled, max_context_length, appended, fresh, evicted,
                   n_appends, resizes, closed, n_socks, main_pc, failed_connects,
                   was_connected, loop_time, gen_log, n_lines, last_line, raised_at,
                   txtVars>>

\* CancelledError reaches the read loop task: safe_delay swallows it and
\* generate_response is called; raised in generate_response it passes the
\* `except Exception` of _process_ai_request, whose finally clause runs
HandlerCancelled(id) ==
    /\ id \in DOMAIN tasks
    /\ tasks[id].kind = "listen"
    /\ tasks[id].cancelled
    /\ Commit(Cancelled(Client, id))
    /\ gen_log' = IF tasks[id].pc = "delay"
                  THEN Append(gen_log, <<requests[id].username, requests[id].prompt>>)
                  ELSE gen_log
    /\ processing_tasks' = IF tasks[id].pc = "generate"
                           THEN processing_tasks \ {requests[id].task_id}
                           ELSE processing_tasks
    /\ requests' = IF tasks[id].pc = "generate" THEN DelKey(requests, id) ELSE requests
    /\ UNCHANGED <<now, rlVars, ctxVars, closed, n_socks, main_pc, failed_connects,
                   losses, was_connected, loop_time, sent_log, n_lines, last_line,
                   raised_at,
                   txtVars>>

BotInit ==
    /\ processing_tasks = {}
    /\ loop_time = 0
    /\ requests = EmptyMap
    /\ gen_log = <<>>
    /\ sent_log = <<>>
    /\ n_lines = 0
    /\ last_line = <<>>
    /\ raised_at = 0

(***************************************************************************)
(* CommandHandler.  handle_command is applied to a rate limiter and a       *)
(* context store that have been in use; the generation client answers       *)
(* list_models with the list of its models or with None.                    *)
(***************************************************************************)
\* the keys of self.commands
Registry ==
    {<<"h", "e", "l", "p">>,
     <<"m", "o", "d", "e", "l">>,
     <<"m", "o", "d", "e", "l", "s">>,
     <<"s", "t", "a", "t", "s">>,
     <<"c", "o", "n", "t", "e", "x", "t">>,
     <<"c", "l", "e", "a", "r">>,
     <<"p", "i", "n", "g">>,
     <<"i", "n", "f", "o">>,
     <<"r", "e", "s", "e", "t">>}

\* ollama.model of the configuration
ConfiguredModel == <<"l", "l", "a", "m", "a", "3">>

\* what list_models returns: None, or the names of the models
Listings == {None, <<<<"l", "l", "a", "m", "a", "2">>>>}

\* the collaborators the handler of the command calls
Touched(command, args) ==
    CASE command = <<"h", "e", "l", "p">> -> {}
      [] command = <<"m", "o", "d", "e", "l">> -> IF args = <<>> THEN {} ELSE {"generation_client"}
      [] command = <<"m", "o", "d", "e", "l", "s">> -> {"generation_client"}
      [] command = <<"s", "t", "a", "t", "s">> -> {"rate_limiter", "context_store"}
      [] command = <<"c", "o", "n", "t", "e", "x", "t">> -> {"context_store"}
      [] command = <<"c", "l", "e", "a", "r">> -> {"context_store"}
      [] command = <<"p", "i", "n", "g">> -> {}
      [] command = <<"i", "n", "f", "o">> -> {}
      [] command = <<"r", "e", "s", "e", "t">> -> {"rate_limiter"}
      [] OTHER -> {}

\* check_model_exists(model) when list_models returns listing
check_model_exists(listing, model) ==
    listing # None /\ \E i \in 1..Len(listing) : listing[i] = model

\* current_model after the handler of the command
CurrentModel(command, args, listing) ==
    IF command = <<"m", "o", "d", "e", "l">> /\ args # <<>> /\ check_model_exists(listing, strip(args))
    THEN strip(args) ELSE ConfiguredModel

\* what handle_command returns: None, or one of its texts
CommandReturn(command, args, listing) ==
    IF command = None THEN "None"
    ELSE IF command \notin Registry THEN "Unknown command"
    ELSE IF command = <<"m", "o", "d", "e", "l">>
    THEN IF args = <<>> THEN "Current model"
         ELSE IF check_model_exists(listing, strip(args)) THEN "Model changed"
         ELSE "Model not found"
    ELSE IF command = <<"m", "o", "d", "e", "l", "s">>
    THEN IF listing # None /\ listing # <<>> THEN "Available models"
         ELSE "Could not retrieve model list"
    ELSE "text"

\* LimiterAfter with the rate limiter's statistics read for every command
LimiterAfterStatsAlways(lim, command, username) == AfterGetUserStats(lim)

\* the rate limiter after the handler of the command: get_user_stats for
\* stats, reset_user for reset
LimiterAfter(lim, command, username) ==
    IF command = <<"s", "t", "a", "t", "s">> THEN AfterGetUserStats(lim)
    ELSE IF command = <<"r", "e", "s", "e", "t">>
    THEN [ur |-> IF username \in DOMAIN lim.ur THEN DelKey(lim.ur, username) ELSE lim.ur,
          gr |-> lim.gr]
    ELSE lim

\* the context store after the handler of the command: clear_user_context for
\* clear
StoreAfter(store, command, username) ==
    IF command = <<"c", "l", "e", "a", "r">>
    THEN [uc |-> DropUsers(store.uc, {username}), ts |-> DropUsers(store.ts, {username}),
          gc |-> store.gc]
    ELSE store

\* the handler of the command is run; listing: what list_models returns
Execute(username, command, args, listing) ==
    /\ txt_out' = [username |-> username,
                   command |-> command,
                   touched |-> Touched(command, args),
                   current_model |-> CurrentModel(command, args, listing),
                   ret |-> CommandReturn(command, args, listing)]
    /\ PutLimiter(LimiterAfter(Limiter, command, username))
    /\ PutStore(StoreAfter(ContextStore, command, username))
    /\ rec_log' = IF command = <<"r", "e", "s", "e", "t">>
                  THEN [rec_log EXCEPT ![username] = <<>>] ELSE rec_log
    /\ appended' = IF command = <<"c", "l", "e", "a", "r">>
                   THEN [appended EXCEPT ![username] = <<>>] ELSE appended
    /\ fresh' = IF command = <<"c", "l", "e", "a", "r">>
                THEN [fresh EXCEPT ![username] = TRUE] ELSE fresh

\* handle_command(username, message, trigger)
handle_command(username, message, listing) ==
    /\ txt_op = "none"
    /\ txt_op' = "handle_command"
    /\ txt_in' = [kind |-> "dispatch", text |-> message, max_length |-> 0]
    /\ \E parsed \in {parse_command(message, Trigger)} :
           Execute(username, parsed.command, parsed.args, listing)
    /\ UNCHANGED <<now, enabled, rl_ret, glob_log, ctx_enabled, max_context_length,
                   evicted, n_appends, resizes, connVars, botVars>>

\* the messages handle_command is called with
DispatchMessages ==
    {<<"B", "o", "t", " ", "h", "e", "l", "p">>,
     <<"B", "o", "t", " ", "m", "o", "d", "e", "l">>,
     <<"B", "o", "t", " ", "m", "o", "d", "e", "l", "s">>,
     <<"B", "o", "t", " ", "s", "t", "a", "t", "s">>,
     <<"B", "o", "t", " ", "c", "o", "n", "t", "e", "x", "t">>,
     <<"B", "o", "t", " ", "c", "l", "e", "a", "r">>,
     <<"B", "o", "t", " ", "p", "i", "n", "g">>,
     <<"B", "o", "t", " ", "i", "n", "f", "o">>,
     <<"B", "o", "t", " ", "r", "e", "s", "e", "t">>,
     <<"B", "o", "t", " ", "m", "o", "d", "e", "l", " ", "l", "l", "a", "m", "a", "2">>,
     <<"B", "o", "t", " ", "m", "o", "d", "e", "l", " ", " ", "g", "p", "t">>,
     <<"B", "o", "t", " ", "d", "a", "n", "c", "e">>,
     <<"b", "o", "t", " ", "S", "T", "A", "T", "S", " ", "n", "o", "w">>,
     <<"h", "e", "l", "l", "o">>,
     <<"B", "o", "t">>}

(***************************************************************************)
(* The inputs of the text helpers.                                         *)
(***************************************************************************)
\* a line of the server is a prefix, a name, a separator, a body and an end
LinePrefixes ==
    {<<>>,
     <<"<", "2", ">">>,
     <<"[", "1", "]">>,
     <<">", ">", " ">>,
     <<"<", "x", ">">>,
     <<"T", "o", "t", "a", "l", ":", " ", "5", " ">>,
     <<"h", "a", "s", " ", "l", "e", "f", "t", " ">>,
     <<"h", "t", "t", "p", ":", "/", "/", "x", " ", "e", "m", "a", "i", "l", ":">>,
     <<"M", "e", "s", "s", "a", "g", "e", " ", "s", "e", "n", "t", " ", "t", "o", " ", "[", "1", "]", "b", "o", "b", ":", " ", "<", "2", ">">>}

\* the names
LineNames ==
    {<<>>,
     <<"a", "l", "i", "c", "e">>,
     <<"b", "o", "t">>,
     <<"a", "l", "i", "c", "e", " ", "(", "p", "r", "i", "v", "a", "t", "e", ")">>}

\* the separators
LineSeps ==
    {<<>>,
     <<":">>,
     <<":", " ">>}

\* the bodies
LineBodies ==
    {<<>>,
     <<"h", "i">>,
     <<"B", "o", "t">>,
     <<"B", "o", "t", " ", "h", "i">>,
     <<"B", "o", "t", ",", " ", "w", "h", "a", "t", " ", "t", "i", "m", "e", " ", "i", "s", " ", "i", "t", "?">>,
     <<"B", "o", "t", ":", " ", "h", "i">>,
     <<"h", "i", "]">>,
     <<"h", "i", "\r", "B", "o", "t">>,
     <<"h", NUL, "i">>}

\* the ends readline() leaves on a line
LineEnds ==
    {<<"\n">>,
     <<"\r", "\n">>}

Lines ==
    {p \o n \o s \o b \o e :
        p \in LinePrefixes, n \in LineNames, s \in LineSeps, b \in LineBodies,
        e \in LineEnds}

\* a message parse_command is called with is a head, a word and a tail
CommandHeads ==
    {<<>>,
     <<"h", "e", "l", "l", "o", " ">>,
     <<"x">>}

\* the words
CommandWords ==
    {<<>>,
     <<"B", "o", "t">>,
     <<"b", "o", "t">>,
     <<"B", "O", "T">>,
     <<"B", "o">>}

\* the tails
CommandTails ==
    {<<>>,
     <<" ">>,
     <<" ", "h", "e", "l", "p">>,
     <<" ", "H", "e", "l", "p", " ", " ", "M", "e", " ", "n", "o", "w">>,
     <<" ", "m", "o", "d", "e", "l", " ", "l", "l", "a", "m", "a", "2">>,
     <<"h", "e", "l", "p">>,
     <<":", " ", "h", "e", "l", "p">>,
     <<"\t", "h", "e", "l", "p", " ">>,
     <<"w", "o", "r", "l", "d">>}

Commands ==
    {h \o w \o t : h \in CommandHeads, w \in CommandWords, t \in CommandTails}

\* n letters
Letters(n) == [i \in 1..n |-> "a"]

\* a response is one word, or two words and a space
Responses ==
    {Letters(i) : i \in 0..MaxRun}
        \cup {Letters(i) \o <<" ">> \o Letters(j) : i, j \in 0..MaxRun}

\* a content _extract_prompt is called with is a head, the trigger, a run of
\* separators and a tail
ContentHeads ==
    {<<>>,
     <<"h", "e", "y", " ">>}

\* the trigger as it is written
ContentTriggers ==
    {<<"B", "o", "t">>,
     <<"b", "o", "t">>}

\* the runs of separators
ContentSeps ==
    {<<>>,
     <<",">>,
     <<":">>,
     <<"-">>,
     <<">">>,
     <<"|">>,
     <<":", ":">>,
     <<":", "-">>,
     <<"-", ":">>,
     <<":", " ", "-">>,
     <<" ", "|", ":">>,
     <<":", "-", ">", "|">>}

\* the tails
ContentTails ==
    {<<>>,
     <<" ">>,
     <<"h", "i">>,
     <<" ", "h", "i", " ", "b", "o", "t", ":", "-">>}

Contents ==
    {h \o w \o p \o t :
        h \in ContentHeads, w \in ContentTriggers, p \in ContentSeps, t \in ContentTails}
        \cup {<<>>, <<"h", "i">>}

TextInputs ==
    {[kind |-> "line", text |-> l, max_length |-> 0] : l \in Lines}
        \cup {[kind |-> "content", text |-> c, max_length |-> 0] : c \in Contents}
        \cup {[kind |-> "command", text |-> c, max_length |-> 0] : c \in Commands}
        \cup {[kind |-> "response", text |-> r, max_length |-> n] :
                 r \in Responses, n \in 0..MaxLength}

\* what _process_message made of the line, and where process_message returns
Outcome(m) ==
    [handler |-> m.handler, username |-> m.username, content |-> m.content,
     stage |-> IF m.handler THEN Stage(m.username, m.content) ELSE "skipped"]

\* _process_message(line), and process_message when it is called
ApplyProcessMessage ==
    /\ txt_op = "input" /\ txt_in.kind = "line"
    /\ txt_op' = "_process_message"
    /\ txt_out' = Outcome(_process_message(txt_in.text))
    /\ UNCHANGED <<now, rlVars, ctxVars, connVars, botVars, txt_in>>

\* parse_command(message, trigger)
ApplyParseCommand ==
    /\ txt_op = "input" /\ txt_in.kind = "command"
    /\ txt_op' = "parse_command"
    /\ txt_out' = parse_command(txt_in.text, Trigger)
    /\ UNCHANGED <<now, rlVars, ctxVars, connVars, botVars, txt_in>>

\* truncate_response(response, max_length)
ApplyTruncateResponse ==
    /\ txt_op = "input" /\ txt_in.kind = "response"
    /\ txt_op' = "truncate_response"
    /\ txt_out' = truncate_response(txt_in.text, txt_in.max_length)
    /\ UNCHANGED <<now, rlVars, ctxVars, connVars, botVars, txt_in>>

\* _extract_prompt(content)
ApplyExtractPrompt ==
    /\ txt_op = "input" /\ txt_in.kind = "content"
    /\ txt_op' = "_extract_prompt"
    /\ txt_out' = _extract_prompt(txt_in.text)
    /\ UNCHANGED <<now, rlVars, ctxVars, connVars, botVars, txt_in>>

\* no helper is called
TextIdle ==
    /\ txt_in = [kind |-> "none", text |-> <<>>, max_length |-> 0]
    /\ txt_op = "none"
    /\ txt_out = <<>>

(***************************************************************************)
(* Specifications                                                          *)
(***************************************************************************)
\* the rate limiter under any sequence of its operations and a simulated clock
InitRate ==
    /\ now = 0
    /\ enabled \in BOOLEAN
    /\ RateInit
    /\ ctx_enabled = TRUE
    /\ CtxInit
    /\ ConnInit
    /\ BotInit
    /\ TextIdle

NextRate ==
    \/ \E u \in Users : is_allowed(u)
    \/ \E u \in Users : record_request(u)
    \/ \E u \in Users : get_user_stats(u)
    \/ \E u \in Users : reset_user(u)
    \/ reset_all
    \/ TickRate

SpecRate == InitRate /\ [][NextRate]_vars

\* the context store under any sequence of its operations and a clock
InitCtx ==
    /\ now = 0
    /\ enabled = TRUE
    /\ RateInit
    /\ ctx_enabled \in BOOLEAN
    /\ CtxInit
    /\ ConnInit
    /\ BotInit
    /\ TextIdle

NextCtx ==
    \/ \E u \in Names, m \in Msgs : add_message(u, m, u = BotUsername)
    \/ \E u \in Names : clear_user_context(u)
    \/ clear_all_context
    \/ \E n \in 0..MaxNewLength : set_context_length(n)
    \/ TickCtx

SpecCtx == InitCtx /\ [][NextCtx]_vars

\* the context store under any sequence of its operations, read at the end
NextCtxRead ==
    \/ txt_op = "none" /\ NextCtx
    \/ \E u \in Names, include_global \in BOOLEAN : get_context(u, include_global)

SpecCtxRead == InitCtx /\ [][NextCtxRead]_vars

\* the connection manager: the bot connects and later disconnects, the transport
\* fails at any time, lines arrive at any time
InitConn ==
    /\ now = 0
    /\ enabled = TRUE
    /\ RateInit
    /\ ctx_enabled = TRUE
    /\ CtxInit
    /\ ConnInit
    /\ BotInit
    /\ TextIdle

NextConn ==
    \/ \E id \in TaskIds : ListenStart(id)
    \/ \E id \in TaskIds : ListenEOF(id)
    \/ \E id \in TaskIds, ok \in BOOLEAN : ListenNotice(id, ok)
    \/ \E id \in TaskIds : ListenGenerate(id)
    \/ \E id \in TaskIds : DelayDone(id)
    \/ \E id \in TaskIds, ok \in BOOLEAN : GenerateDone(id, ok)
    \/ \E id \in TaskIds : ListenCancelled(id)
    \/ \E id \in TaskIds : SleepDone(id)
    \/ \E id \in TaskIds : OpenFail(id)
    \/ \E id \in TaskIds, ok \in BOOLEAN : OpenOk(id, ok)
    \/ \E id \in TaskIds : SettleDone(id)
    \/ \E id \in TaskIds : ReconnectCancelled(id)
    \/ MainConnect
    \/ MainOpenFail
    \/ \E ok \in BOOLEAN : MainOpenOk(ok)
    \/ MainSettleDone
    \/ \E ok \in BOOLEAN : Disconnect(ok)
    \/ \E ok \in BOOLEAN : DisconnectListenDone(ok)
    \/ \E ok \in BOOLEAN : DisconnectReconnectDone(ok)
    \/ DisconnectClose

SpecConn == InitConn /\ [][NextConn]_vars

\* the text helpers, each applied to every input
InitText ==
    /\ now = 0
    /\ enabled = TRUE
    /\ RateInit
    /\ ctx_enabled = TRUE
    /\ CtxInit
    /\ ConnInit
    /\ BotInit
    /\ txt_in \in TextInputs
    /\ txt_op = "input"
    /\ txt_out = <<>>

NextText ==
    \/ ApplyProcessMessage
    \/ ApplyParseCommand
    \/ ApplyTruncateResponse
    \/ ApplyExtractPrompt

SpecText == InitText /\ [][NextText]_vars

\* the command handler on a rate limiter and a context store in use: alice has
\* made up to max_requests + 1 requests within one window, alice and the bot
\* have filled the store up to its capacity
NextCmd ==
    \/ txt_op = "none" /\ Len(glob_log) <= MaxRequests /\ record_request("alice")
    \/ txt_op = "none" /\ now < TimeWindow /\ TickRate
    \/ /\ txt_op = "none" /\ n_appends < ContextLength
       /\ \E u \in Names : add_message(u, "m1", u = BotUsername)
    \/ \E message \in DispatchMessages, listing \in Listings :
           handle_command("alice", message, listing)

SpecCmd == InitConn /\ [][NextCmd]_vars

\* a chat line with the trigger
AliceAsks == <<"<", "2", ">", "a", "l", "i", "c", "e", ":", " ", "B", "o", "t", ",", " ", "w", "h", "a", "t", " ", "t", "i", "m", "e", " ", "i", "s", " ", "i", "t", "?", "\n">>

\* a chat line of another identity
BobAsks == <<"[", "1", "]", "b", "o", "b", ":", " ", "B", "o", "t", ":", " ", "h", "i", "\n">>

\* a chat line without the trigger
AliceTalks == <<"<", "2", ">", "a", "l", "i", "c", "e", ":", " ", "h", "e", "l", "l", "o", "\n">>

\* a chat line with the trigger and nothing after it
AliceCalls == <<"<", "2", ">", "a", "l", "i", "c", "e", ":", " ", "B", "o", "t", "\n">>

\* a line of the server that has the shape of a chat line
Notice == <<">", ">", " ", "a", "l", "i", "c", "e", ":", " ", "B", "o", "t", " ", "h", "i", "\n">>

\* the bot's own line, echoed
Echo == <<"<", "3", ">", "b", "o", "t", ":", " ", "B", "o", "t", " ", "h", "i", "\n">>

\* a line no prefix grammar matches
Bare == <<"h", "e", "l", "l", "o", " ", "B", "o", "t", "\n">>

\* a chat line that ends with a bracket
Bracket == <<"[", "1", "]", "a", "l", "i", "c", "e", ":", " ", "B", "o", "t", " ", "h", "i", "]", "\n">>

\* the bot's own line in the other two shapes
EchoBracket == <<"[", "7", "]", "b", "o", "t", ":", " ", "B", "o", "t", " ", "h", "i", "\n">>
EchoPlain == <<"b", "o", "t", ":", " ", "B", "o", "t", " ", "h", "i", "\n">>

\* the lines the server sends
BotLines == {AliceAsks, BobAsks, AliceTalks, AliceCalls, Notice, Bracket, Echo,
             EchoBracket, EchoPlain, Bare}

\* the bot on a transport whose writes succeed: it connects, reads lines, answers
\* them, loses the connection and reconnects, and is shut down; the loop's clock
\* advances from one request to the next
InitBot ==
    /\ now = 0
    /\ enabled = TRUE
    /\ RateInit
    /\ ctx_enabled = TRUE
    /\ CtxInit
    /\ ConnInit
    /\ BotInit
    /\ TextIdle

NextBot ==
    \/ \E id \in TaskIds : ListenStart(id)
    \/ \E id \in TaskIds : ListenEOF(id)
    \/ \E id \in TaskIds, line \in BotLines : Receive(id, line, loop_time + 1, TRUE)
    \/ \E id \in TaskIds : Generate(id)
    \/ \E id \in TaskIds, outcome \in Outcomes, reply \in Replies :
           Respond(id, outcome, reply, TRUE)
    \/ \E id \in TaskIds : HandlerCancelled(id)
    \/ \E id \in TaskIds : SleepDone(id)
    \/ \E id \in TaskIds : OpenFail(id)
    \/ \E id \in TaskIds : OpenOk(id, TRUE)
    \/ \E id \in TaskIds : SettleDone(id)
    \/ \E id \in TaskIds : ReconnectCancelled(id)
    \/ MainConnect
    \/ MainOpenFail
    \/ MainOpenOk(TRUE)
    \/ MainSettleDone
    \/ Disconnect(TRUE)
    \/ DisconnectListenDone(TRUE)
    \/ DisconnectReconnectDone(TRUE)
    \/ DisconnectClose

SpecBot == InitBot /\ [][NextBot]_vars

\* the bot on a transport whose writes fail at any time, with and without the
\* rate limit
InitBotLossy ==
    /\ now = 0
    /\ enabled \in BOOLEAN
    /\ RateInit
    /\ ctx_enabled = TRUE
    /\ CtxInit
    /\ ConnInit
    /\ BotInit
    /\ TextIdle

NextBotLossy ==
    \/ \E id \in TaskIds : ListenStart(id)
    \/ \E id \in TaskIds : ListenEOF(id)
    \/ \E id \in TaskIds, t \in {loop_time, loop_time + 1}, ok \in BOOLEAN :
           Receive(id, AliceAsks, t, ok)
    \/ \E id \in TaskIds : Generate(id)
    \/ \E id \in TaskIds, outcome \in Outcomes, reply \in Replies, ok \in BOOLEAN :
           Respond(id, outcome, reply, ok)
    \/ \E id \in TaskIds : HandlerCancelled(id)
    \/ \E id \in TaskIds : SleepDone(id)
    \/ \E id \in TaskIds : OpenFail(id)
    \/ \E id \in TaskIds, ok \in BOOLEAN : OpenOk(id, ok)
    \/ \E id \in TaskIds : SettleDone(id)
    \/ \E id \in TaskIds : ReconnectCancelled(id)
    \/ MainConnect
    \/ MainOpenFail
    \/ \E ok \in BOOLEAN : MainOpenOk(ok)
    \/ MainSettleDone
    \/ \E ok \in BOOLEAN : Disconnect(ok)
    \/ \E ok \in BOOLEAN : DisconnectListenDone(ok)
    \/ \E ok \in BOOLEAN : DisconnectReconnectDone(ok)
    \/ DisconnectClose

SpecBotLossy == InitBotLossy /\ [][NextBotLossy]_vars

\* the bot with one user, never shut down, on a transport that may fail when the
\* orchestrator writes to it
NextBotWrites ==
    \/ \E id \in TaskIds : ListenStart(id)
    \/ \E id \in TaskIds : ListenEOF(id)
    \/ \E id \in TaskIds, ok \in BOOLEAN : Receive(id, AliceAsks, loop_time + 1, ok)
    \/ \E id \in TaskIds : Generate(id)
    \/ \E id \in TaskIds, outcome \in Outcomes, ok \in BOOLEAN :
           Respond(id, outcome, <<"o", "k">>, ok)
    \/ \E id \in TaskIds : SleepDone(id)
    \/ \E id \in TaskIds : OpenFail(id)
    \/ \E id \in TaskIds : OpenOk(id, TRUE)
    \/ \E id \in TaskIds : SettleDone(id)
    \/ MainConnect
    \/ MainOpenFail
    \/ MainOpenOk(TRUE)
    \/ MainSettleDone

SpecBotWrites == InitBot /\ [][NextBotWrites]_vars

\* the bot with two users on a transport that does not fail, while the clock of
\* the rate limiter advances
NextBotTimed ==
    \/ \E id \in TaskIds : ListenStart(id)
    \/ \E id \in TaskIds, line \in {AliceAsks, BobAsks} :
           Receive(id, line, loop_time + 1, TRUE)
    \/ \E id \in TaskIds : Generate(id)
    \/ \E id \in TaskIds, outcome \in Outcomes : Respond(id, outcome, <<"o", "k">>, TRUE)
    \/ TickRate
    \/ MainConnect
    \/ MainOpenOk(TRUE)
    \/ MainSettleDone

SpecBotTimed == InitBot /\ [][NextBotTimed]_vars

\* the bot on a transport that does not fail, with a message handler that
\* raises an exception at any line
NextBotRaises ==
    \/ \E id \in TaskIds : ListenStart(id)
    \/ \E id \in TaskIds : ListenEOF(id)
    \/ \E id \in TaskIds, line \in {AliceAsks, AliceTalks} :
           Receive(id, line, loop_time + 1, TRUE)
    \/ \E id \in TaskIds, line \in {AliceAsks, AliceTalks, Bare},
          done \in {"nothing", "add_message", "record_request"} :
           HandlerRaises(id, line, done)
    \/ \E id \in TaskIds : Generate(id)
    \/ \E id \in TaskIds, outcome \in Outcomes : Respond(id, outcome, <<"o", "k">>, TRUE)
    \/ \E id \in TaskIds : SleepDone(id)
    \/ \E id \in TaskIds : OpenOk(id, TRUE)
    \/ \E id \in TaskIds : SettleDone(id)
    \/ MainConnect
    \/ MainOpenOk(TRUE)
    \/ MainSettleDone

SpecBotRaises == InitBot /\ [][NextBotRaises]_vars

(***************************************************************************)
(* Properties of the rate limiter, under SpecRate                          *)
(***************************************************************************)
\* the number of timestamps of log that lie inside the window ending now
CountInWindow(log) == Cardinality({i \in 1..Len(log) : now - log[i] < TimeWindow})

\* every request recorded so far is at least one window old
WindowElapsed == \A i \in 1..Len(glob_log) : now - glob_log[i] >= TimeWindow

\* C6: with rate limiting enabled, once max_requests calls of record_request(u)
\* lie within the current window is_allowed(u) is false, and once the window has
\* elapsed since the newest recorded request is_allowed(u) is true again.
C6_RefusedThenAllowed ==
    enabled =>
        \A u \in Users :
            /\ CountInWindow(rec_log[u]) >= MaxRequests => ~IsAllowedRet(u)
            /\ (Len(rec_log[u]) >= MaxRequests /\ WindowElapsed) => IsAllowedRet(u)

\* is_allowed(u) has returned true after u's max_requests requests left the window
C6_Witness ==
    /\ enabled
    /\ rl_ret.op = "is_allowed"
    /\ rl_ret.ret = TRUE
    /\ Len(rec_log[rl_ret.user]) >= MaxRequests
    /\ WindowElapsed

\* C7: with rate limiting enabled, is_allowed(u) is true exactly when u has fewer
\* than max_requests recorded requests in the window and fewer than
\* 2 * max_requests requests are recorded in the window over all identities;
\* with rate limiting disabled it is always true and nothing is stored.
C7_AdmissionRule ==
    /\ enabled =>
          \A u \in Users :
              IsAllowedRet(u) <=> /\ CountInWindow(rec_log[u]) < MaxRequests
                                  /\ CountInWindow(glob_log) < 2 * MaxRequests
    /\ ~enabled =>
          /\ \A u \in Users : IsAllowedRet(u)
          /\ user_requests = EmptyMap
          /\ global_requests = <<>>

\* is_allowed(u) has returned false for the global limit alone
C7_Witness ==
    /\ enabled
    /\ rl_ret.op = "is_allowed"
    /\ rl_ret.ret = FALSE
    /\ CountInWindow(rec_log[rl_ret.user]) < MaxRequests
    /\ CountInWindow(glob_log) >= 2 * MaxRequests

(***************************************************************************)
(* Properties of the context store, under SpecCtx                          *)
(***************************************************************************)
\* the most recent min(Len(s), n) entries of s, in their order
Recent(s, n) ==
    LET k == IF Len(s) < n THEN Len(s) ELSE n
    IN [i \in 1..k |-> s[Len(s) - k + i]]

\* C8: every per-identity sequence and the global sequence is never longer than
\* the configured max_context_length.
C8_LengthBounded ==
    /\ \A u \in DOMAIN user_contexts : Len(user_contexts[u].items) <= max_context_length
    /\ Len(global_context.items) <= max_context_length

\* both a private sequence and the global one are full after the capacity was lowered
C8_Witness ==
    /\ max_context_length >= 1
    /\ max_context_length < ContextLength
    /\ Len(global_context.items) = max_context_length
    /\ \E u \in DOMAIN user_contexts :
          ~fresh[u] /\ Len(user_contexts[u].items) = max_context_length
    /\ resizes = 0

\* C9: an identity's sequence holds the last max_context_length turns appended
\* for it, in append order: after max_context_length + 1 appends the first is gone.
C9_OldestEvictedFirst ==
    \A u \in DOMAIN user_contexts :
        user_contexts[u].items = Recent(appended[u], max_context_length)

\* max_context_length + 1 turns were appended for one identity, not all alike
C9_Witness ==
    \E u \in DOMAIN user_contexts :
        /\ fresh[u]
        /\ max_context_length >= 2
        /\ Len(appended[u]) = max_context_length + 1
        /\ Len(user_contexts[u].items) = max_context_length
        /\ appended[u][1] # appended[u][2]

\* C10: set_context_length(n) leaves in every sequence the most recent
\* min(len, n) entries in their order, and a second set_context_length(n) right
\* after it changes no sequence.
C10_ResizeIdempotent ==
    [][/\ resizes' >= 1 =>
            /\ DOMAIN user_contexts' = DOMAIN user_contexts
            /\ \A u \in DOMAIN user_contexts :
                  user_contexts'[u].items =
                      Recent(user_contexts[u].items, max_context_length')
            /\ global_context'.items = Recent(global_context.items, max_context_length')
       /\ resizes' = 2 =>
            /\ user_contexts' = user_contexts
            /\ global_context' = global_context
            /\ max_context_length' = max_context_length]_vars

\* set_context_length(n) was applied twice in succession to sequences it had cut
C10_Witness ==
    /\ resizes = 2
    /\ max_context_length >= 1
    /\ max_context_length < ContextLength
    /\ Len(global_context.items) = max_context_length
    /\ n_appends > max_context_length
    /\ \E u \in DOMAIN user_contexts : Len(user_contexts[u].items) = max_context_length

(***************************************************************************)
(* Properties of the connection manager, under SpecConn                    *)
(***************************************************************************)
\* C1: after max_reconnect_attempts consecutive failed connect attempts no
\* reconnection task is pending, scheduled or running.
C1_TerminalAfterMaxAttempts ==
    failed_connects >= MaxReconnectAttempts => ReconnectTasks(tasks) = {}

\* C2: at most one reconnection task exists at any time.
C2_SingleFlight == Cardinality(ReconnectTasks(tasks)) <= 1

\* C3: once disconnect() has been called no transport is opened, no read loop
\* is started and is_connected does not become true.
C3_ShuttingDownTerminal ==
    [][should_stop =>
          /\ ~is_connected'
          /\ n_socks' = n_socks
          /\ ListenTasks(tasks') \subseteq ListenTasks(tasks)]_vars

\* C4: when disconnect() is called on a connected client, the quit line is on
\* the transport before disconnect() closes it.
C4_QuitBeforeClose ==
    was_connected => \A sock \in closed : <<sock, ".q">> \in wire

\* C5: when disconnect() has returned no read loop task and no reconnection
\* task is left.
C5_NoTaskLeft == main_pc = "stopped" => DOMAIN tasks = {}

(***************************************************************************)
(* Properties of the orchestrator, under SpecBot                           *)
(***************************************************************************)
Alice == <<"a", "l", "i", "c", "e">>

\* the last turn of the identity's deque
LastTurn(uc, username) == uc[username].items[Len(uc[username].items)]

\* this step reads a line
Reads == n_lines' = n_lines + 1

\* this step reads AliceAsks: the handler gets the username alice and the content
\* "Bot, what time is it?", and an admitted request waits with the prompt
ReadsAliceAsks(prompt) ==
    (Reads /\ last_line' = AliceAsks) =>
        /\ Alice \in DOMAIN user_contexts'
        /\ LastTurn(user_contexts', Alice) = <<"a", "l", "i", "c", "e", ":", " ", "B", "o", "t", ",", " ", "w", "h", "a", "t", " ", "t", "i", "m", "e", " ", "i", "s", " ", "i", "t", "?">>
        /\ IF IsAllowedRet(Alice)
           THEN \E id \in DOMAIN requests' \ DOMAIN requests :
                    /\ requests'[id].username = Alice
                    /\ requests'[id].prompt = prompt
                    /\ tasks'[id].pc = "delay"
                    /\ requests' = SetKey(requests, id, requests'[id])
           ELSE requests' = requests
        /\ gen_log' = gen_log

\* generate_response is called once for a waiting request, with its prompt
CallsOncePerRequest ==
    gen_log' # gen_log =>
        \E id \in DOMAIN requests :
            /\ tasks[id].pc = "delay"
            /\ tasks'[id].pc = "generate"
            /\ gen_log' = Append(gen_log, <<requests[id].username, requests[id].prompt>>)

\* C11, as stated: the line "<2>alice: Bot, what time is it?" reaches the handler
\* with the username alice and the content "Bot, what time is it?"; the prompt is
\* "what time is it?", and an admitted request makes exactly one generation call,
\* with that prompt.
C11_PromptWithoutComma ==
    [][ReadsAliceAsks(<<"w", "h", "a", "t", " ", "t", "i", "m", "e", " ", "i", "s", " ", "i", "t", "?">>) /\ CallsOncePerRequest]_vars

\* C11, amended: the same, with the prompt ", what time is it?": the comma is
\* not one of the separators : - > | that are stripped.
C11_PromptKeepsComma ==
    [][ReadsAliceAsks(<<",", " ", "w", "h", "a", "t", " ", "t", "i", "m", "e", " ", "i", "s", " ", "i", "t", "?">>) /\ CallsOncePerRequest]_vars

\* a generation call was made for AliceAsks
C11_Witness ==
    /\ last_line = AliceAsks
    /\ gen_log # <<>>
    /\ gen_log[Len(gen_log)] = <<Alice, <<",", " ", "w", "h", "a", "t", " ", "t", "i", "m", "e", " ", "i", "s", " ", "i", "t", "?">>>>

\* the sanitized line matches a system pattern or a self-echo pattern
SystemOrEcho(line) ==
    \/ _is_system_message(sanitize_message(line))
    \/ _is_bot_message(sanitize_message(line))

\* the sanitized line matches a chat prefix grammar and its content holds the
\* trigger
ChatWithTrigger(line) ==
    /\ FirstGrammar(sanitize_message(line)) # NoGroups
    /\ is_bot_trigger(_extract_message_content(sanitize_message(line)), Trigger)

\* nothing the message handler does has happened
NothingHandled ==
    UNCHANGED <<user_contexts, global_context, context_timestamps, user_requests,
                global_requests, processing_tasks, requests, loop_time, gen_log,
                sent_log, wire>>

\* C12: a step that reads a line matching a system pattern or a self-echo
\* pattern leaves the context store and the rate limiter unchanged, starts no
\* request, makes no generation call and sends nothing, also when the line
\* matches a chat prefix grammar and holds the trigger.
C12_SystemAndEchoSkipped ==
    [][(Reads /\ SystemOrEcho(last_line')) => NothingHandled]_vars

\* the bot's own line, a chat line with the trigger, was read and nothing came
\* of it
C12_Witness ==
    /\ n_lines > 0
    /\ _is_bot_message(sanitize_message(last_line))
    /\ ChatWithTrigger(last_line)
    /\ user_contexts = EmptyMap
    /\ sent_log = <<>>

\* no prefix grammar matches the sanitized line, which is neither empty nor a
\* system line nor an echo
NoGrammar(line) ==
    /\ sanitize_message(line) # <<>>
    /\ ~SystemOrEcho(line)
    /\ FirstGrammar(sanitize_message(line)) = NoGroups

\* C13: a line no prefix grammar matches reaches the handler as content with no
\* username, and the step that reads it leaves the context store and the rate
\* limiter unchanged, starts no generation and sends nothing.
C13_NoUsernameRejected ==
    [][(Reads /\ NoGrammar(last_line')) =>
           /\ _process_message(last_line') =
                  [handler |-> TRUE, username |-> None,
                   content |-> sanitize_message(last_line')]
           /\ Stage(None, sanitize_message(last_line')) = "no_username"
           /\ NothingHandled]_vars

\* a line without a prefix that holds the trigger was read, and the store is empty
C13_Witness ==
    /\ n_lines > 0
    /\ NoGrammar(last_line)
    /\ is_bot_trigger(sanitize_message(last_line), Trigger)
    /\ user_contexts = EmptyMap

(***************************************************************************)
(* Properties of the text helpers, under SpecText                          *)
(***************************************************************************)
\* the trigger occurs in the message, in any case
HasTrigger(message) ==
    \E i \in 1..Len(message) - Len(Trigger) + 1 :
        lower(SubSeq(message, i, i + Len(Trigger) - 1)) = lower(Trigger)

\* what follows the first occurrence of the trigger
Following(message) ==
    LET i == CHOOSE i \in 1..Len(message) - Len(Trigger) + 1 :
                 /\ lower(SubSeq(message, i, i + Len(Trigger) - 1)) = lower(Trigger)
                 /\ \A j \in 1..i - 1 :
                        lower(SubSeq(message, j, j + Len(Trigger) - 1)) # lower(Trigger)
    IN  SubSeq(message, i + Len(Trigger), Len(message))

\* out holds the first word of text, in lower case, as the command and the rest
\* of text, in its own case and without the whitespace around it, as the args
FirstWordAndRest(text, out) ==
    \E i \in 1..Len(text), j \in 1..Len(text) :
        /\ i <= j
        /\ \A k \in 1..i - 1 : text[k] \in Whitespace
        /\ \A k \in i..j : text[k] \notin Whitespace
        /\ j < Len(text) => text[j + 1] \in Whitespace
        /\ out.command = lower(SubSeq(text, i, j))
        /\ out.args = strip(SubSeq(text, j + 1, Len(text)))

\* the examples
ParseExamples ==
    /\ txt_in.text = <<"B", "o", "t", " ", "h", "e", "l", "p">> =>
           txt_out = [command |-> <<"h", "e", "l", "p">>, args |-> <<>>]
    /\ txt_in.text = <<"B", "o", "t", " ", "m", "o", "d", "e", "l", " ", "l", "l", "a", "m", "a", "2">> =>
           txt_out = [command |-> <<"m", "o", "d", "e", "l">>, args |-> <<"l", "l", "a", "m", "a", "2">>]
    /\ txt_in.text = <<"h", "e", "l", "l", "o", " ", "w", "o", "r", "l", "d">> => txt_out = NoCommand

\* C14, as stated: parse_command returns nothing when the trigger does not occur
\* in the message, in any case, and otherwise the first word after the trigger
\* in lower case as the command and the remainder as the args.
C14_CommandWheneverTriggered ==
    txt_op = "parse_command" =>
        /\ ParseExamples
        /\ IF HasTrigger(txt_in.text)
           THEN FirstWordAndRest(Following(txt_in.text), txt_out)
           ELSE txt_out = NoCommand

\* C14, amended: parse_command returns nothing when the trigger does not occur
\* in the message or only whitespace follows its first occurrence, and otherwise
\* the first word after the trigger in lower case as the command and the
\* remainder as the args.
C14_CommandWhenTextFollows ==
    txt_op = "parse_command" =>
        /\ ParseExamples
        /\ IF HasTrigger(txt_in.text) /\ strip(Following(txt_in.text)) # <<>>
           THEN FirstWordAndRest(Following(txt_in.text), txt_out)
           ELSE txt_out = NoCommand

\* a command in capitals after the trigger in capitals, with args of two words
C14_Witness ==
    /\ txt_op = "parse_command"
    /\ txt_in.text = <<"x", "B", "O", "T", " ", "H", "e", "l", "p", " ", " ", "M", "e", " ", "n", "o", "w">>
    /\ txt_out = [command |-> <<"h", "e", "l", "p">>, args |-> <<"M", "e", " ", "n", "o", "w">>]

\* C15: truncate_response returns a response of at most max_length characters
\* unchanged, and of a longer one a text of at most max_length characters that
\* ends with "...".
C15_TruncatedToMaxLength ==
    txt_op = "truncate_response" =>
        IF Len(txt_in.text) <= txt_in.max_length
        THEN txt_out = txt_in.text
        ELSE /\ Len(txt_out) <= txt_in.max_length
             /\ EndsWith(txt_out, <<".", ".", ".">>)

(***************************************************************************)
(* Properties of the orchestrator's replies, under SpecBot                 *)
(***************************************************************************)
\* this step ends generate_response in the task id, which was not cancelled
GenerationEnds(id) ==
    /\ tasks[id].pc = "generate"
    /\ ~tasks[id].cancelled
    /\ id \notin DOMAIN requests'

\* the read loop task id goes on with its loop: it reads again, or it has left
\* the loop because the client is no longer connected
LoopGoesOn(id) ==
    \/ id \in DOMAIN tasks' /\ tasks'[id].pc = "read"
    \/ id \notin DOMAIN tasks' /\ ~(is_connected' /\ writer' # 0 /\ ~should_stop')

\* send_message was called once, with line, and wrote it if the client was
\* connected
SentOnce(e) ==
    /\ sent_log' = Append(sent_log, e)
    /\ wire' = IF Writes(Client) THEN wire \cup {<<writer, e.line>>} ELSE wire

\* C16: when generate_response ends with no response or with an exception,
\* exactly one send_message call is made, with the apology of that case, to the
\* identity that asked; no turn is added to the context store, the task id
\* leaves processing_tasks and the read loop goes on.
C16_OneApologyOnFailure ==
    [][\A id \in DOMAIN requests :
           GenerationEnds(id) =>
               \E after \in Outcomes :
                   /\ SentOnce([line |-> IF after = "response" THEN "reply"
                                         ELSE IF after = "none" THEN "sorry"
                                         ELSE "error",
                                to |-> requests[id].username,
                                after |-> after])
                   /\ after # "response" =>
                          UNCHANGED <<user_contexts, global_context,
                                      context_timestamps, gen_log>>
                   /\ UNCHANGED <<user_requests, global_requests>>
                   /\ processing_tasks' = processing_tasks \ {requests[id].task_id}
                   /\ LoopGoesOn(id)]_vars

\* both apologies were sent on the transport, and the task reads again
C16_Witness ==
    /\ Len(sent_log) = 2
    /\ sent_log[1].after = "raise" /\ sent_log[1].line = "error"
    /\ sent_log[2].after = "none" /\ sent_log[2].line = "sorry"
    /\ \E sock \in 1..MaxSockets : {<<sock, "error">>, <<sock, "sorry">>} \subseteq wire
    /\ \E id \in DOMAIN tasks : tasks[id].kind = "listen" /\ tasks[id].pc = "read"

\* the line reaches the handler with a username, the trigger and a prompt
Asks(line) ==
    /\ _process_message(line).handler
    /\ _process_message(line).username \notin {None, <<>>}
    /\ is_bot_trigger(_process_message(line).content, Trigger)
    /\ _extract_prompt(_process_message(line).content) # None

\* the number of requests the rate limiter holds for the identity
Recorded(ur, username) == IF username \in DOMAIN ur THEN Len(ur[username]) ELSE 0

\* no request was recorded in the rate limiter
NothingRecorded ==
    /\ Len(global_requests') <= Len(global_requests)
    /\ \A username \in DOMAIN user_requests' :
           Recorded(user_requests', username) <= Recorded(user_requests, username)

\* C17: a step that reads a line with the trigger and a prompt from an identity
\* is_allowed refuses makes exactly one send_message call, with the rate limit
\* notice; it records no request in the rate limiter, starts no request and
\* makes no generation call.
C17_RefusedGetsOneNotice ==
    [][(Reads /\ Asks(last_line')
              /\ ~IsAllowedRet(_process_message(last_line').username)) =>
           /\ SentOnce([line |-> "notice",
                        to |-> _process_message(last_line').username,
                        after |-> "refused"])
           /\ NothingRecorded
           /\ UNCHANGED <<requests, processing_tasks, gen_log>>]_vars

\* alice was answered once and then refused: one request is recorded for alice,
\* and the notice is on the wire
C17_Witness ==
    /\ n_lines = 2
    /\ Len(sent_log) = 2
    /\ sent_log[1] = [line |-> "reply", to |-> Alice, after |-> "response"]
    /\ sent_log[2] = [line |-> "notice", to |-> Alice, after |-> "refused"]
    /\ Recorded(user_requests, Alice) = 1
    /\ Len(gen_log) = 1
    /\ \E sock \in 1..MaxSockets : <<sock, "notice">> \in wire

(***************************************************************************)
(* Properties of the generations in flight, under SpecBotLossy             *)
(***************************************************************************)
\* the task id has called generate_response, which has not returned
Generating(id) ==
    /\ id \in DOMAIN requests
    /\ id \in DOMAIN tasks
    /\ tasks[id].pc = "generate"

\* C18: no two generate_response calls for one identity are in flight at the
\* same time.
C18_OneGenerationPerIdentity ==
    \A id \in DOMAIN requests, other \in DOMAIN requests :
        (Generating(id) /\ Generating(other)
             /\ requests[id].username = requests[other].username) => id = other

\* a generation is in flight: the delay before generate_response, or the call
InFlight(id) ==
    /\ id \in DOMAIN requests
    /\ id \in DOMAIN tasks
    /\ tasks[id].pc \in {"delay", "generate"}

\* C19: while a generation is in flight on a connected client that is not shut
\* down, a read loop is waiting for the next inbound line, so that a second
\* admitted line starts a generation next to the first.
C19_ReadsWhileGenerating ==
    (/\ \E id \in DOMAIN requests : InFlight(id)
     /\ is_connected /\ writer # 0 /\ ~should_stop)
        => \E reader \in DOMAIN tasks : At(reader, "listen", "read")

(***************************************************************************)
(* Properties of send_message, under SpecBot                               *)
(***************************************************************************)
\* this step makes a send_message call
Sends == Len(sent_log') = Len(sent_log) + 1

\* no reconnection is scheduled in this step
NoReconnection ==
    /\ reconnect_task' = reconnect_task
    /\ reconnect_attempts' = reconnect_attempts
    /\ DOMAIN tasks' \subseteq DOMAIN tasks

\* C20: a send_message call on a client that is not connected returns False,
\* writes nothing and changes nothing of the client: the read loop that made
\* the call goes on as it would without it, and after disconnect() no
\* reconnection is scheduled.
C20_NotConnectedSendIsNoOp ==
    [][(Sends /\ ~Writes(Client)) =>
           /\ \A ok \in BOOLEAN : ~SendMessageRet(Client, ok)
           /\ wire' = wire
           /\ \E id \in DOMAIN tasks : Client' = ListenLoop(Client, id)
           /\ should_stop => NoReconnection]_vars

\* the reply to a request that was in flight when disconnect() was called was
\* handed to send_message, and nothing was written
C20_Witness ==
    /\ should_stop
    /\ ~is_connected
    /\ sent_log # <<>>
    /\ sent_log[Len(sent_log)].line = "reply"
    /\ \A sock \in 1..MaxSockets : <<sock, "reply">> \notin wire

(***************************************************************************)
(* Properties of failed writes, under SpecBotWrites                        *)
(***************************************************************************)
\* the write of this step's send_message call fails on a connected client that
\* is not shut down
WriteFails == Sends /\ Writes(Client) /\ ~should_stop /\ losses' = losses + 1

\* a reconnection task was created in this step
ReconnectionScheduled ==
    /\ reconnect_attempts' > reconnect_attempts
    /\ \E id \in ReconnectTasks(tasks') \ DOMAIN tasks :
           /\ tasks'[id].pc = "sleep"
           /\ reconnect_task' = id

\* C21: when the write of a send_message call fails on a connected client that
\* is not shut down, the call returns False and writes nothing, the client is
\* not connected afterwards, and a reconnection is scheduled if the attempt
\* counter is below max_reconnect_attempts and none otherwise.
C21_WriteFailureStartsRecovery ==
    [][WriteFails =>
           /\ ~SendMessageRet(Client, FALSE)
           /\ wire' = wire
           /\ ~is_connected'
           /\ IF reconnect_attempts < MaxReconnectAttempts
              THEN ReconnectionScheduled
              ELSE /\ reconnect_attempts' = reconnect_attempts
                   /\ ReconnectTasks(tasks') \subseteq ReconnectTasks(tasks)]_vars

\* the write of a reply failed: nothing of it is on the wire, the client is not
\* connected and a reconnection task sleeps
C21_Witness ==
    /\ losses = 1
    /\ sent_log # <<>>
    /\ sent_log[Len(sent_log)].line = "reply"
    /\ \A sock \in 1..MaxSockets : <<sock, "reply">> \notin wire
    /\ ~is_connected /\ ~should_stop
    /\ reconnect_attempts > 0
    /\ \E id \in ReconnectTasks(tasks) : tasks[id].pc = "sleep"

(***************************************************************************)
(* Properties of get_context, under SpecCtxRead                            *)
(***************************************************************************)
\* the entries of s that are not entries of own, in their order
NotIn(s, own) ==
    LET absent(e) == \A i \in 1..Len(own) : own[i] # e
    IN  SelectSeq(s, absent)

\* the deque of the identity, empty when it has none
OwnTurns(username) ==
    IF username \in DOMAIN user_contexts THEN user_contexts[username].items ELSE <<>>

\* C22: with the store enabled, get_context(identity, include_global=True)
\* returns the identity's own entries in order, followed by the global entries
\* that are equal to none of them, in global order and as often as they occur in
\* the global sequence.
C22_GlobalEntriesKeptAsOften ==
    (txt_op = "get_context" /\ txt_in.max_length = 1 /\ ctx_enabled) =>
        txt_out = OwnTurns(txt_in.text[1])
                      \o NotIn(global_context.items, OwnTurns(txt_in.text[1]))

(***************************************************************************)
(* Properties of the rate limiter's map, under SpecRate                    *)
(***************************************************************************)
\* C23: user_requests has an entry only for an identity with at least one
\* recorded request: no query creates an entry.
C23_NoEntryWithoutRequest ==
    \A user_id \in DOMAIN user_requests : user_requests[user_id] # <<>>

(***************************************************************************)
(* Properties of the orchestrator's pipeline, under SpecBot                *)
(***************************************************************************)
\* the last entry of the deque
Newest(d) == d.items[Len(d.items)]

\* the line reaches the handler with a username
Chat(line) ==
    /\ _process_message(line).handler
    /\ _process_message(line).username \notin {None, <<>>}

\* C25: with the context store enabled, a step that reads a chat line with a
\* username appends "{username}: {content}" to the identity's deque and to the
\* global deque, whether the line holds the trigger or not, has a prompt or
\* not, and is admitted by the rate limiter or not.
C25_EveryChatLineAppended ==
    [][(Reads /\ Chat(last_line') /\ ctx_enabled) =>
           LET m == _process_message(last_line')
           IN  /\ m.username \in DOMAIN user_contexts'
               /\ Newest(user_contexts'[m.username]) = m.username \o <<":", " ">> \o m.content
               /\ Newest(global_context') = m.username \o <<":", " ">> \o m.content
               /\ context_timestamps'[m.username] = now]_vars

\* a line without the trigger, and before it a line with the trigger and no
\* prompt, are in the global deque, and no generation call was made
C25_Witness ==
    /\ n_lines = 2
    /\ last_line = AliceTalks
    /\ ~is_bot_trigger(_process_message(AliceTalks).content, Trigger)
    /\ Len(global_context.items) = 2
    /\ Newest(global_context) = Alice \o <<":", " ">> \o _process_message(AliceTalks).content
    /\ global_context.items[1] = <<"a", "l", "i", "c", "e", ":", " ", "B", "o", "t">>
    /\ gen_log = <<>>

\* the line reaches the handler with a username and the trigger
Triggered(line) == Chat(line) /\ is_bot_trigger(_process_message(line).content, Trigger)

\* this step ends the request of task id
RequestEnds(id) == InFlight(id) /\ id \notin DOMAIN requests'

\* C24: a line that passes the trigger check leads to a send_message call: the
\* step that reads it makes one or starts a request, and the step that ends a
\* request makes one.
C24_NoSilentDrop ==
    [][/\ (Reads /\ Triggered(last_line')) =>
              (Sends \/ \E id \in DOMAIN requests' : id \notin DOMAIN requests)
       /\ \A id \in DOMAIN requests : RequestEnds(id) => Sends]_vars

\* C26: after disconnect() a generation that was waiting in its response delay
\* or in the backend call goes on to its send_message call, which writes
\* nothing.
C26_GenerationOutlivesDisconnect ==
    [][\A id \in DOMAIN requests :
           (should_stop /\ RequestEnds(id)) => (Sends /\ wire' = wire)]_vars

(***************************************************************************)
(* Properties of the connection's tasks, under SpecConn, and of its        *)
(* sockets, under SpecBot                                                  *)
(***************************************************************************)
\* a read loop task has entered its loop: it awaits readline() or the handler
ReadLoopRuns ==
    \E id \in ListenTasks(tasks) : tasks[id].pc \in {"read", "delay", "generate"}

\* C27: no read loop task is in its loop while a reconnection task is sleeping
\* or connecting.
C27_ReadLoopExcludesReconnection ==
    ~(ReadLoopRuns /\ ReconnectTasks(tasks) # {})

\* the sockets the client has opened and not closed; on a transport whose
\* writes succeed no socket is closed by a failure
OpenSockets == (1..n_socks) \ closed

\* C28: at most one socket opened by the client is open at any time.
C28_OneOpenSocket == Cardinality(OpenSockets) <= 1

\* this step loses the connection of a client that is not shut down
ConnectionLost == is_connected /\ ~is_connected' /\ ~should_stop'

\* C29: a connected client has its attempt counter at 0, for every connect()
\* that succeeds sets it to 0; so each loss of the connection, also one after
\* a reconnection, schedules a reconnection.
C29_CounterResetOnConnect ==
    [][/\ is_connected' => reconnect_attempts' = 0
       /\ ConnectionLost => ReconnectionScheduled]_vars

\* the second connection, made by a reconnection task, was lost as well, and a
\* reconnection task sleeps again with the counter at 1
C29_Witness ==
    /\ n_socks = 2
    /\ <<2, ".n">> \in wire
    /\ losses = 2
    /\ ~is_connected /\ ~should_stop
    /\ reconnect_attempts = 1
    /\ \E id \in ReconnectTasks(tasks) : tasks[id].pc = "sleep" /\ reconnect_task = id

(***************************************************************************)
(* Properties of the truncation's cut, under SpecText                      *)
(***************************************************************************)
\* response[:n]: the first n characters, and all but the last -n for n < 0
Prefix(response, n) ==
    IF n >= 0 THEN SubSeq(response, 1, Min(n, Len(response)))
    ELSE SubSeq(response, 1, IF Len(response) + n > 0 THEN Len(response) + n ELSE 0)

\* the position, counted from 0, of the last space of s, and -1 without one
LastSpace(s) ==
    IF \A i \in 1..Len(s) : s[i] # " " THEN -1
    ELSE (CHOOSE i \in 1..Len(s) :
              s[i] = " " /\ \A j \in i + 1..Len(s) : s[j] # " ") - 1

\* the result of truncating the response at the word boundary when wordcut
\* holds, and after max_length - 3 characters otherwise
CutAt(response, max_length, wordcut) ==
    IF wordcut
    THEN Prefix(response, LastSpace(Prefix(response, max_length - 3))) \o <<".", ".", ".">>
    ELSE Prefix(response, max_length - 3) \o <<".", ".", ".">>

\* C30, as stated: of a response longer than max_length the cut at the last
\* space within response[:max_length - 3] is taken exactly when that space lies
\* at or after position 0.8 * max_length.
C30_WordCutAtOrAfter ==
    (txt_op = "truncate_response" /\ Len(txt_in.text) > txt_in.max_length) =>
        txt_out = CutAt(txt_in.text, txt_in.max_length,
                        10 * LastSpace(Prefix(txt_in.text, txt_in.max_length - 3))
                            >= 8 * txt_in.max_length)

\* C30, amended: the same, with the cut at the last space taken exactly when
\* that space lies after position 0.8 * max_length, equality excluded.
C30_WordCutStrictlyAfter ==
    (txt_op = "truncate_response" /\ Len(txt_in.text) > txt_in.max_length) =>
        txt_out = CutAt(txt_in.text, txt_in.max_length,
                        10 * LastSpace(Prefix(txt_in.text, txt_in.max_length - 3))
                            > 8 * txt_in.max_length)

\* with max_length 21 a space at position 17 is taken: 17 letters and "..."
C30_Witness ==
    /\ txt_op = "truncate_response"
    /\ txt_in.max_length = 21
    /\ txt_in.text = Letters(17) \o <<" ">> \o Letters(4)
    /\ txt_out = Letters(17) \o <<".", ".", ".">>

(***************************************************************************)
(* Properties of the prompt, under SpecText                                *)
(***************************************************************************)
\* the separators
Separators == {":", "-", ">", "|"}

\* s without one leading separator and the whitespace after it
OneSeparatorLess(s) ==
    IF s # <<>> /\ s[1] \in Separators THEN strip(Drop(s, 1)) ELSE s

\* C31: the prompt is the text after the first occurrence of the trigger, in
\* any case, without the whitespace around it and without one leading
\* separator, a second separator staying in the prompt; there is no prompt when
\* nothing is left, or when the trigger does not occur.
C31_OneSeparatorStripped ==
    txt_op = "_extract_prompt" =>
        IF HasTrigger(txt_in.text)
           /\ OneSeparatorLess(strip(Following(txt_in.text))) # <<>>
        THEN txt_out = OneSeparatorLess(strip(Following(txt_in.text)))
        ELSE txt_out = None

\* the text after the first occurrence of the trigger begins with a separator
SeparatorFollows(message) ==
    /\ HasTrigger(message)
    /\ strip(Following(message)) # <<>>
    /\ strip(Following(message))[1] \in Separators

\* C32: of a message with a separator between the trigger and the command
\* word, parse_command returns the word, in lower case, as the command and the
\* rest as the args; "Bot: help" gives the command "help" and empty args.
C32_SeparatorBeforeCommand ==
    (txt_op = "parse_command" /\ SeparatorFollows(txt_in.text)) =>
        /\ FirstWordAndRest(OneSeparatorLess(strip(Following(txt_in.text))), txt_out)
        /\ txt_in.text = <<"B", "o", "t", ":", " ", "h", "e", "l", "p">> =>
               txt_out = [command |-> <<"h", "e", "l", "p">>, args |-> <<>>]

(***************************************************************************)
(* Properties of the eviction, under SpecCtx                               *)
(***************************************************************************)
\* this step is an add_message call on an enabled store
Appends == ctx_enabled /\ n_appends' = n_appends + 1

\* the identity's last activity is older than the TTL
Old(username) ==
    /\ username \in DOMAIN context_timestamps
    /\ now - context_timestamps[username] > ContextTTL

\* the identity has the same sequence and the same timestamp, or none, before
\* and after the step
Untouched(username) ==
    /\ username \in DOMAIN user_contexts' <=> username \in DOMAIN user_contexts
    /\ username \in DOMAIN context_timestamps' <=> username \in DOMAIN context_timestamps
    /\ username \in DOMAIN user_contexts =>
           user_contexts'[username] = user_contexts[username]
    /\ username \in DOMAIN context_timestamps =>
           context_timestamps'[username] = context_timestamps[username]

\* the step appends the turn to the sequence of username and to the global one,
\* and removes nothing else from them
AppendsFor(username, turn) ==
    /\ username \in DOMAIN user_contexts'
    /\ user_contexts'[username].items =
           Recent(Append(IF username \in DOMAIN user_contexts
                         THEN user_contexts[username].items ELSE <<>>, turn),
                  max_context_length)
    /\ context_timestamps'[username] = now
    /\ global_context'.items = Recent(Append(global_context.items, turn), max_context_length)

\* C33: an add_message call removes the sequence and the timestamp of every
\* identity whose last activity is older than the TTL and of no other: the
\* global sequence loses nothing by it, an identity that has not expired keeps
\* its sequence and its timestamp, and the identity appended to is kept.
C33_EvictionRemovesExpiredOnly ==
    [][Appends =>
          \E username \in Names, m \in Msgs :
              /\ AppendsFor(username, FormatMessage(username, m, username = BotUsername))
              /\ \A other \in Names \ {username} :
                    IF Old(other)
                    THEN /\ other \notin DOMAIN user_contexts'
                         /\ other \notin DOMAIN context_timestamps'
                    ELSE Untouched(other)]_vars

\* the last add_message call evicted an identity, whose turn is still in the
\* global sequence, and kept the identity it appended to
C33_Witness ==
    /\ evicted # {}
    /\ evicted \cap DOMAIN user_contexts = {}
    /\ DOMAIN user_contexts # {}
    /\ \E username \in evicted, i \in 1..Len(global_context.items), m \in Msgs :
           global_context.items[i] = FormatMessage(username, m, username = BotUsername)

(***************************************************************************)
(* Properties of the command handler, under SpecCmd                        *)
(***************************************************************************)
\* this step is a call of handle_command
Dispatches == txt_op = "none" /\ txt_op' = "handle_command"

\* a collaborator the handler does not call keeps its state
UntouchedKept ==
    /\ "rate_limiter" \notin txt_out'.touched =>
           UNCHANGED <<user_requests, global_requests>>
    /\ "context_store" \notin txt_out'.touched =>
           UNCHANGED <<user_contexts, global_context, context_timestamps>>

\* C34, as stated: the handler of every command calls at most one of the
\* generation client, the rate limiter and the context store, and the state of
\* the others is not changed.
C34_OneCollaboratorPerHandler ==
    [][Dispatches => (UntouchedKept /\ Cardinality(txt_out'.touched) <= 1)]_vars

\* C34, amended: the same for every command but stats, whose handler calls the
\* rate limiter and the context store.
C34_OneCollaboratorButStats ==
    [][Dispatches =>
          /\ UntouchedKept
          /\ IF txt_out'.command = <<"s", "t", "a", "t", "s">>
             THEN txt_out'.touched = {"rate_limiter", "context_store"}
             ELSE Cardinality(txt_out'.touched) <= 1]_vars

\* help was dispatched while the rate limiter held a request older than the
\* window, which it still holds
C34_Witness ==
    /\ txt_op = "handle_command"
    /\ txt_out.command = <<"h", "e", "l", "p">>
    /\ txt_out.touched = {}
    /\ \E i \in 1..Len(global_requests) : global_requests[i] <= now - TimeWindow
    /\ DOMAIN user_contexts # {}

RECURSIVE SumOfWindows(_, _)
SumOfWindows(ur, S) ==
    IF S = {} THEN 0
    ELSE LET user_id == CHOOSE user_id \in S : TRUE
         IN  Len(ur[user_id]) + SumOfWindows(ur, S \ {user_id})

\* this step is a call of reset_user
Resets == rl_ret'.op = "reset_user"

\* C36: the global window holds at least as many timestamps as the windows of
\* all identities together, and reset_user(u) removes the window of u and
\* leaves the global window and the windows of the others as they are.
C36_GlobalCoversIdentities ==
    /\ [](Len(global_requests) >= SumOfWindows(user_requests, DOMAIN user_requests))
    /\ [][Resets =>
             /\ global_requests' = global_requests
             /\ user_requests' = DelKey(user_requests, rl_ret'.user)]_vars

\* is_allowed(u) has returned false right after reset_user(u): the window of u
\* is empty and the global window is filled by the requests of u alone
C36_Witness ==
    /\ enabled
    /\ rl_ret.op = "is_allowed"
    /\ rl_ret.ret = FALSE
    /\ DOMAIN user_requests = {rl_ret.user}
    /\ user_requests[rl_ret.user] = <<>>
    /\ rec_log = [u \in Users |-> <<>>]
    /\ Len(global_requests) = 2 * MaxRequests
    /\ global_requests = glob_log

(***************************************************************************)
(* Properties of the bot's turns, under SpecBotWrites                      *)
(***************************************************************************)
Assistant == <<"A", "s", "s", "i", "s", "t", "a", "n", "t", ":", " ">>

\* the turn is one of the bot
BotTurn(turn) == Len(turn) >= Len(Assistant) /\ SubSeq(turn, 1, Len(Assistant)) = Assistant

\* the number of turns of the bot in the global deque
BotTurns(d) == Cardinality({i \in 1..Len(d.items) : BotTurn(d.items[i])})

\* this step ends a generation with the outcome: it calls send_message
GenerationEndsWith(outcome) ==
    /\ \E id \in DOMAIN requests : GenerationEnds(id)
    /\ Sends
    /\ sent_log'[Len(sent_log')].after = outcome

\* C37: a step adds a turn of the bot to the store only when it ends a
\* generation with a response; the turn is in the store when send_message is
\* called and stays there when the write fails; a generation that ends with no
\* response or with an exception leaves the store as it is.
C37_BotTurnAfterSuccessOnly ==
    [][/\ GenerationEndsWith("response") =>
              /\ BotTurn(Newest(global_context'))
              /\ BotName \in DOMAIN user_contexts'
              /\ Newest(user_contexts'[BotName]) = Newest(global_context')
       /\ (GenerationEndsWith("none") \/ GenerationEndsWith("raise")) =>
              UNCHANGED <<user_contexts, global_context, context_timestamps>>
       /\ ~GenerationEndsWith("response") =>
              BotTurns(global_context') <= BotTurns(global_context)]_vars

\* the write of the reply failed: the reply is not on the transport, the client
\* is disconnected, and the bot's turn is the newest of the store
C37_Witness ==
    /\ sent_log # <<>>
    /\ sent_log[Len(sent_log)].after = "response"
    /\ \A w \in wire : w[2] # "reply"
    /\ ~is_connected
    /\ global_context.items # <<>>
    /\ Newest(global_context) = Assistant \o <<"o", "k">>

(***************************************************************************)
(* Properties of the bot's turns, under SpecBot                            *)
(***************************************************************************)
\* the turns get_context(username, include_global) returns hold one of the bot
HoldsBotTurn(username, include_global) ==
    \E i \in 1..Len(ContextParts(username, include_global)) :
        BotTurn(ContextParts(username, include_global)[i])

\* C38: a reply is stored as "Assistant: {text}" in the deque of the bot's
\* username and in the global deque, and the step that stores it leaves the
\* deque and the timestamp of every other identity as they are; what
\* get_context(u, include_global=False) returns for an identity u other than
\* the bot holds no turn of the bot.
C38_ReplyUnderBotUsername ==
    /\ [](\A username \in DOMAIN user_contexts \ {BotName} :
              ~HoldsBotTurn(username, FALSE))
    /\ [][GenerationEndsWith("response") =>
             /\ \E reply \in Replies :
                    Newest(global_context') =
                        Assistant \o truncate_response(reply, MaxResponseLength)
             /\ BotName \in DOMAIN user_contexts'
             /\ Newest(user_contexts'[BotName]) = Newest(global_context')
             /\ \A username \in DOMAIN user_contexts \ {BotName} :
                    /\ username \in DOMAIN user_contexts'
                    /\ user_contexts'[username] = user_contexts[username]
                    /\ context_timestamps'[username] = context_timestamps[username]]_vars

\* alice was answered: her own context holds her turn and no turn of the bot,
\* her context with the global turns holds the reply
C38_Witness ==
    /\ Alice \in DOMAIN user_contexts
    /\ BotName \in DOMAIN user_contexts
    /\ ContextParts(Alice, FALSE) # <<>>
    /\ ~HoldsBotTurn(Alice, FALSE)
    /\ HoldsBotTurn(Alice, TRUE)
    /\ Newest(user_contexts[BotName]) = Assistant \o <<"o", "k">>

(***************************************************************************)
(* Properties of a raising handler, under SpecBotRaises                    *)
(***************************************************************************)
\* this step reads a line at which the handler raises an exception
Raises == Reads /\ raised_at' = n_lines'

\* C39: the step in which the handler raises an exception leaves the client
\* connected, writes nothing, schedules no reconnection and leaves the read
\* loop task reading.
C39_HandlerExceptionAbsorbed ==
    [][Raises =>
          /\ UNCHANGED <<is_connected, writer, should_stop, reconnect_attempts,
                         reconnect_task, listen_task, wire, sent_log>>
          /\ tasks' = tasks
          /\ \E id \in ListenTasks(tasks') : tasks'[id].pc = "read"]_vars

\* the handler raised at the first line, and the second line was read and led
\* to a generation call on the same connection
C39_Witness ==
    /\ raised_at = 1
    /\ n_lines = 2
    /\ gen_log # <<>>
    /\ is_connected
    /\ n_socks = 1
    /\ reconnect_attempts = 0
    /\ ReconnectTasks(tasks) = {}

(***************************************************************************)
(* Properties of processing_tasks                                          *)
(***************************************************************************)
\* the rate limiter admits the line: process_message calls _process_ai_request
Admitted(line) ==
    /\ _process_message(line).handler
    /\ Stage(_process_message(line).username, _process_message(line).content) = "admitted"

\* the task ids of the generations in flight
TokensInFlight == {requests[id].task_id : id \in DOMAIN requests}

\* C40: processing_tasks holds the task id of every generation in flight, one
\* for each, and nothing else: it is empty when no generation is in flight; and
\* every request that is admitted starts a generation, none is rejected by the
\* duplicate check.
C40_OneTokenPerGeneration ==
    /\ [](/\ processing_tasks = TokensInFlight
          /\ Cardinality(processing_tasks) = Cardinality(DOMAIN requests))
    /\ [][(Reads /\ raised_at' = raised_at /\ Admitted(last_line')) =>
             \E id \in DOMAIN requests' : id \notin DOMAIN requests]_vars
====
